---- MODULE Spec2Model ----
(***************************************************************************)
(* Model of post-automation: the slide-document reader                     *)
(* (core/ppt_analyzer.py) and writer (core/ppt_modifier.py), the classifier *)
(* wrapper (core/ai_detector.py), the rule-based rewriter                  *)
(* (core/content_generator.py), the upload validation and temporary files  *)
(* (utils/) and the route handlers (api/routes/).                          *)
(*                                                                         *)
(* A presentation is a sequence of slides, a slide a sequence of shapes, a *)
(* text frame a sequence of paragraphs, a paragraph a sequence of runs and *)
(* a run a text (a sequence of one-character strings) with a font.  The    *)
(* document library is represented by what the source relies on: which     *)
(* shape kinds have a text_frame, a table or sub-shapes, the run text      *)
(* setter that leaves the run's font alone, and a graphic frame without a  *)
(* table (a chart) whose table access raises past hasattr().  The          *)
(* classifier model is represented by the probability it gives, counted in *)
(* tenths.                                                                 *)
(*                                                                         *)
(* SpecReplace:     PPTModifier.replace_content on an opened presentation. *)
(* SpecStyle:       PPTModifier.modify_styles, up to MaxStyleCalls times.  *)
(* SpecRead:        PPTAnalyzer.extract_text_from_pptx on a file.          *)
(* SpecGetDetector: concurrent callers of get_detector in one process.     *)
(* SpecDetect:      AIDetector.detect on a loaded detector.                *)
(* SpecGenerate:    ContentGenerator.generate on a text, and again on its  *)
(*                  result.                                                *)
(* SpecApi:         one request to /detect/text, /detect/pptx or           *)
(*                  /modify/pptx.                                          *)
(* SpecHealth:      GET /api/health where the classifier cannot be loaded. *)
(***************************************************************************)
EXTENDS Integers, Sequences, FiniteSets, TLC

\* ------------------------------------------------------------------ bounds
MaxSlides == 2
MaxRepl == 2
MaxStyleCalls == 2
MaxCallers == 2
MaxCalls == 2
MaxDetections == 2
MaxGenerateCalls == 2

\* ------------------------------------------------------------ text helpers
\* Python None for a string-valued attribute.
NoneS == "<None>"
\* Python None for a Length-valued attribute (font.size).
NoneLen == -1
\* Python None for an RGBColor / a hex string / a nested model.
NoneT == <<"<None>">>

\* str.isspace for the characters str.strip() removes.
IsSpace(c) == c \in {" ", "\n", "\t"}

\* Concatenation of a sequence of texts.
RECURSIVE Concat(_)
Concat(ts) == IF ts = <<>> THEN <<>> ELSE Head(ts) \o Concat(Tail(ts))

\* sep.join(parts)
RECURSIVE Join(_, _)
Join(parts, sep) ==
  IF parts = <<>> THEN <<>>
  ELSE IF Len(parts) = 1 THEN parts[1]
  ELSE parts[1] \o sep \o Join(Tail(parts), sep)

RECURSIVE LStrip(_)
LStrip(t) == IF t /= <<>> /\ IsSpace(Head(t)) THEN LStrip(Tail(t)) ELSE t

RECURSIVE RStrip(_)
RStrip(t) ==
  IF t /= <<>> /\ IsSpace(t[Len(t)]) THEN RStrip(SubSeq(t, 1, Len(t) - 1)) ELSE t

\* str.strip()
Strip(t) == RStrip(LStrip(t))

\* Python's `old in text`.
Contains(old, text) ==
  \E i \in 1..(Len(text) - Len(old) + 1) : SubSeq(text, i, i + Len(old) - 1) = old

\* str.replace(old, new, 1): only the leftmost occurrence.
RECURSIVE StrReplaceFirst(_, _, _)
StrReplaceFirst(text, old, new) ==
  IF old = <<>> THEN new \o text
  ELSE IF Len(text) < Len(old) THEN text
  ELSE IF SubSeq(text, 1, Len(old)) = old
       THEN new \o SubSeq(text, Len(old) + 1, Len(text))
       ELSE <<Head(text)>> \o StrReplaceFirst(Tail(text), old, new)

\* str.replace(old, new): every non-overlapping occurrence, leftmost first;
\* an empty old matches before every character and at the end.
RECURSIVE StrReplace(_, _, _)
StrReplace(text, old, new) ==
  IF old = <<>>
  THEN new \o (IF text = <<>> THEN <<>>
               ELSE <<Head(text)>> \o StrReplace(Tail(text), old, new))
  ELSE IF Len(text) < Len(old) THEN text
  ELSE IF SubSeq(text, 1, Len(old)) = old
       THEN new \o StrReplace(SubSeq(text, Len(old) + 1, Len(text)), old, new)
       ELSE <<Head(text)>> \o StrReplace(Tail(text), old, new)

\* ------------------------------------------------------------------- fonts
\* EMU per point and per hundredth of a point (pptx.util.Pt, Centipoints).
EmuPerPt == 12700
EmuPerCentipoint == 127

\* pptx.util.Pt(n)
Pt(n) == n * EmuPerPt

\* font.size setter followed by the getter: the size is stored in hundredths
\* of a point and read back as a Length.
StoredSize(emu) == (emu \div EmuPerCentipoint) * EmuPerCentipoint

\* MSO_COLOR_TYPE.RGB, the value run.font.color.type is compared with.
ColorTypeRGB == 1

\* A run's font: name, size, bold, italic, and the colour (its type: 1 for
\* an explicit RGB colour, 2 for a theme colour, 0 for none; its rgb when
\* the type is RGB, its theme slot when the type is SCHEME).
MkFont(n, s, b, i, ct, rgb, theme) ==
  [name |-> n, size |-> s, bold |-> b, italic |-> i,
   ctype |-> ct, rgb |-> rgb, theme |-> theme]

FontInherit == MkFont(NoneS, NoneLen, NoneS, NoneS, 0, NoneT, NoneS)
FontExplicit == MkFont("Arial", Pt(12), "True", "False", ColorTypeRGB, <<255, 0, 0>>, NoneS)
FontTheme == MkFont("", NoneLen, "False", NoneS, 2, NoneT, "ACCENT_1")

MkRun(t, f) == [text |-> t, font |-> f]

\* ------------------------------------------------------------------ shapes
\* kind "text":  an auto shape / text box: has text_frame.
\* kind "table": a graphic frame holding a table: has table (cells in row
\*               order, each with a text_frame).
\* kind "group": a group shape: has shapes.
\* kind "pic":   a picture: none of the three.
\* kind "chart": a graphic frame without a table: its table property raises
\*               ValueError, which hasattr() does not swallow.
\* kind "badtable": a table of which the listed cells can be read and the
\*               next cell cannot: reading its text raises (a run element
\*               without its text element).  Only files given to the
\*               reader hold one.
MkShape(k, tf, cells, subs) == [kind |-> k, tf |-> tf, cells |-> cells, subs |-> subs]
TextShape(tf) == MkShape("text", tf, <<>>, <<>>)
TableShape(cells) == MkShape("table", <<>>, cells, <<>>)
GroupShape(subs) == MkShape("group", <<>>, <<>>, subs)
Picture == MkShape("pic", <<>>, <<>>, <<>>)
ChartFrame == MkShape("chart", <<>>, <<>>, <<>>)
BrokenTableShape(cells) == MkShape("badtable", <<>>, cells, <<>>)

HasTextFrame(shape) == shape.kind = "text"
HasShapes(shape) == shape.kind = "group"
\* hasattr(shape, "table"): TRUE for a table, FALSE where the attribute is
\* missing; for a chart frame the property raises instead (TableRaises).
HasTable(shape) == shape.kind \in {"table", "badtable"}
TableRaises(shape) == shape.kind = "chart"

\* ------------------------------------------------- writer: replace_content
\* The attributes _replace_text_in_frame saves before it assigns the text.
SavedFormatting(run) ==
  [font_name |-> run.font.name,
   font_size |-> run.font.size,
   font_bold |-> run.font.bold,
   font_italic |-> run.font.italic,
   font_color |-> IF run.font.ctype = ColorTypeRGB THEN run.font.rgb ELSE NoneT]

\* The run text setter: it replaces the text and leaves the font alone.
SetRunText(run, t) == [run EXCEPT !.text = t]

\* A restore with the bold and italic flags written to each other's place.
RestoreFormattingSwapped(run, saved) ==
  LET f0 == run.font
      f1 == IF saved.font_name \notin {NoneS, ""} THEN [f0 EXCEPT !.name = saved.font_name] ELSE f0
      f2 == IF saved.font_size \notin {NoneLen, 0}
            THEN [f1 EXCEPT !.size = StoredSize(saved.font_size)] ELSE f1
      f3 == IF saved.font_bold /= NoneS THEN [f2 EXCEPT !.italic = saved.font_bold] ELSE f2
      f4 == IF saved.font_italic /= NoneS THEN [f3 EXCEPT !.bold = saved.font_italic] ELSE f3
      f5 == IF saved.font_color /= NoneT
            THEN [f4 EXCEPT !.ctype = ColorTypeRGB, !.rgb = saved.font_color, !.theme = NoneS]
            ELSE f4
  IN [run EXCEPT !.font = f5]

\* "Restore formatting": every saved attribute that is truthy (name, size,
\* colour) or not None (bold, italic) is assigned back to the run.
RestoreFormatting(run, saved) ==
  LET f0 == run.font
      f1 == IF saved.font_name \notin {NoneS, ""} THEN [f0 EXCEPT !.name = saved.font_name] ELSE f0
      f2 == IF saved.font_size \notin {NoneLen, 0}
            THEN [f1 EXCEPT !.size = StoredSize(saved.font_size)] ELSE f1
      f3 == IF saved.font_bold /= NoneS THEN [f2 EXCEPT !.bold = saved.font_bold] ELSE f2
      f4 == IF saved.font_italic /= NoneS THEN [f3 EXCEPT !.italic = saved.font_italic] ELSE f3
      f5 == IF saved.font_color /= NoneT
            THEN [f4 EXCEPT !.ctype = ColorTypeRGB, !.rgb = saved.font_color, !.theme = NoneS]
            ELSE f4
  IN [run EXCEPT !.font = f5]

\* The body of the run loop with str.replace limited to one occurrence.
ReplaceTextInRunOnce(run, old_text, new_text) ==
  IF Contains(old_text, run.text)
  THEN RestoreFormatting(SetRunText(run, StrReplaceFirst(run.text, old_text, new_text)),
                         SavedFormatting(run))
  ELSE run

\* The body of the run loop of _replace_text_in_frame.
ReplaceTextInRun(run, old_text, new_text) ==
  IF Contains(old_text, run.text)
  THEN RestoreFormatting(SetRunText(run, StrReplace(run.text, old_text, new_text)),
                         SavedFormatting(run))
  ELSE run

\* The runs of a text frame, as <<paragraph, run>> indexes.
FrameRunIxs(text_frame) ==
  UNION {{<<p, k>> : k \in DOMAIN text_frame[p]} : p \in DOMAIN text_frame}

\* Scan order of the runs of a frame.
Before(a, b) == a[1] < b[1] \/ (a[1] = b[1] /\ a[2] < b[2])

\* A frame scan that stops at the first run containing old_text.
ReplaceTextInFrameFirstOnly(text_frame, old_text, new_text) ==
  LET hits == {ix \in FrameRunIxs(text_frame) :
                 Contains(old_text, text_frame[ix[1]][ix[2]].text)}
      isFirst(ix) == ix \in hits /\ \A h \in hits : h = ix \/ Before(ix, h)
  IN [p \in DOMAIN text_frame |->
        [k \in DOMAIN text_frame[p] |->
           IF isFirst(<<p, k>>)
           THEN ReplaceTextInRun(text_frame[p][k], old_text, new_text)
           ELSE text_frame[p][k]]]

\* A frame scan that matches old_text against the paragraph's whole text
\* and rewrites the paragraph into its first run.
ReplaceTextInFrameAcrossRuns(text_frame, old_text, new_text) ==
  [p \in DOMAIN text_frame |->
     LET ptext == Concat([k \in DOMAIN text_frame[p] |-> text_frame[p][k].text])
     IN IF text_frame[p] /= <<>> /\ Contains(old_text, ptext)
        THEN [k \in DOMAIN text_frame[p] |->
                IF k = 1
                THEN SetRunText(text_frame[p][k], StrReplace(ptext, old_text, new_text))
                ELSE SetRunText(text_frame[p][k], <<>>)]
        ELSE text_frame[p]]

\* _replace_text_in_frame: every run of every paragraph, no early exit.
ReplaceTextInFrame(text_frame, old_text, new_text) ==
  [p \in DOMAIN text_frame |->
     [k \in DOMAIN text_frame[p] |->
        ReplaceTextInRun(text_frame[p][k], old_text, new_text)]]

\* _replace_text_in_table: every cell's text frame (rows in order).
ReplaceTextInTable(cells, old_text, new_text) ==
  [c \in DOMAIN cells |-> ReplaceTextInFrame(cells[c], old_text, new_text)]

\* One iteration of the shape loop of _replace_in_slide, for a shape whose
\* table access does not raise.
ReplaceInShape(shape, old_text, new_text) ==
  LET s1 == IF HasTextFrame(shape)
            THEN [shape EXCEPT !.tf = ReplaceTextInFrame(shape.tf, old_text, new_text)]
            ELSE shape
  IN IF HasTable(s1)
     THEN [s1 EXCEPT !.cells = ReplaceTextInTable(s1.cells, old_text, new_text)]
     ELSE s1

\* Index of the first shape whose table access raises (Len + 1 if none).
FirstRaising(shapes) ==
  IF \E j \in DOMAIN shapes : TableRaises(shapes[j])
  THEN CHOOSE j \in DOMAIN shapes :
         TableRaises(shapes[j]) /\ \A h \in DOMAIN shapes : TableRaises(shapes[h]) => j <= h
  ELSE Len(shapes) + 1

\* The range check of _replace_in_slide with > in place of >=.
SlideMissingOffByOne(presentation, slide_num) == slide_num > Len(presentation)

\* `slide_num >= len(self.presentation.slides)` (slide_num is 0-indexed).
SlideMissing(presentation, slide_num) == slide_num >= Len(presentation)

\* A replacement carried out on every slide of the presentation.
ReplaceInSlideEverySlide(presentation, slide_num, old_text, new_text) ==
  [doc |-> [i \in DOMAIN presentation |->
              [j \in DOMAIN presentation[i] |->
                 IF j < FirstRaising(presentation[i])
                 THEN ReplaceInShape(presentation[i][j], old_text, new_text)
                 ELSE presentation[i][j]]],
   raised |-> FALSE]

\* _replace_in_slide: the presentation after the call and whether the call
\* raised.  The shapes before the first raising one are processed; the
\* exception leaves the later shapes untouched.
ReplaceInSlide(presentation, slide_num, old_text, new_text) ==
  IF SlideMissing(presentation, slide_num)
  THEN [doc |-> presentation, raised |-> FALSE]
  ELSE IF slide_num + 1 \notin DOMAIN presentation
  THEN [doc |-> presentation, raised |-> TRUE]
  ELSE LET shapes == presentation[slide_num + 1]
           stop == FirstRaising(shapes)
       IN [doc |-> [presentation EXCEPT ![slide_num + 1] =
                      [j \in DOMAIN shapes |->
                         IF j < stop THEN ReplaceInShape(shapes[j], old_text, new_text)
                         ELSE shapes[j]]],
           raised |-> stop <= Len(shapes)]

\* --------------------------------------------------- writer: modify_styles
\* One hexadecimal digit of int(s, 16); -1 for any other character.
HexDigit(c) ==
  CASE c = "0" -> 0 [] c = "1" -> 1 [] c = "2" -> 2 [] c = "3" -> 3
    [] c = "4" -> 4 [] c = "5" -> 5 [] c = "6" -> 6 [] c = "7" -> 7
    [] c = "8" -> 8 [] c = "9" -> 9
    [] c \in {"A", "a"} -> 10 [] c \in {"B", "b"} -> 11 [] c \in {"C", "c"} -> 12
    [] c \in {"D", "d"} -> 13 [] c \in {"E", "e"} -> 14 [] c \in {"F", "f"} -> 15
    [] OTHER -> -1

\* str.lstrip("#"): every leading '#' is removed.
RECURSIVE LStripHash(_)
LStripHash(h) == IF h /= <<>> /\ Head(h) = "#" THEN LStripHash(Tail(h)) ELSE h

\* hex_color[i : i + 2] for a 0-based i (slices never raise).
Slice2(h, i) == SubSeq(h, i + 1, IF i + 2 <= Len(h) THEN i + 2 ELSE Len(h))

\* int(s, 16) of a slice of at most two characters drawn from '#', the
\* hexadecimal digits and letters: [ok, value]; the empty slice and a
\* non-digit raise ValueError.
Int16(sl) ==
  IF sl = <<>> \/ \E j \in DOMAIN sl : HexDigit(sl[j]) < 0
  THEN [ok |-> FALSE, value |-> 0]
  ELSE [ok |-> TRUE,
        value |-> IF Len(sl) = 1 THEN HexDigit(sl[1])
                  ELSE 16 * HexDigit(sl[1]) + HexDigit(sl[2])]

\* _hex_to_rgb: [ok, rgb]; ok is FALSE when int() raises.
HexToRgb(hex_color) ==
  LET h == LStripHash(hex_color)
      r == Int16(Slice2(h, 0))
      g == Int16(Slice2(h, 2))
      b == Int16(Slice2(h, 4))
  IN [ok |-> r.ok /\ g.ok /\ b.ok, rgb |-> <<r.value, g.value, b.value>>]

\* StyleConfig: font_name (NoneS when absent), font_size (NoneLen when
\* absent) and the text_color of its color_scheme (NoneT when the scheme
\* or its text_color is absent).
MkStyle(n, s, c) == [font_name |-> n, font_size |-> s, text_color |-> c]

\* The truthiness tests of _apply_styles_to_frame.
WantsName(cfg) == cfg.font_name \notin {NoneS, ""}
WantsSize(cfg) == cfg.font_size \notin {NoneLen, 0}
WantsColor(cfg) == cfg.text_color \notin {NoneT, <<>>}

\* The colour step raises (from _hex_to_rgb) each time it is reached.
ColorRaises(cfg) == WantsColor(cfg) /\ ~HexToRgb(cfg.text_color).ok

\* The name and size steps of the run loop.
ApplyNameSize(run, cfg) ==
  LET f1 == IF WantsName(cfg) THEN [run.font EXCEPT !.name = cfg.font_name] ELSE run.font
      f2 == IF WantsSize(cfg) THEN [f1 EXCEPT !.size = StoredSize(Pt(cfg.font_size))] ELSE f1
  IN [run EXCEPT !.font = f2]

\* A run loop body that adds the configured size to the run's own size.
ApplyStylesToRunAdding(run, cfg) ==
  LET r1 == ApplyNameSize(run, cfg)
      r2 == IF WantsSize(cfg) /\ run.font.size /= NoneLen
            THEN [r1 EXCEPT !.font.size = StoredSize(run.font.size + Pt(cfg.font_size))]
            ELSE r1
  IN IF WantsColor(cfg) /\ ~ColorRaises(cfg)
     THEN [r2 EXCEPT !.font.ctype = ColorTypeRGB,
                     !.font.rgb = HexToRgb(cfg.text_color).rgb,
                     !.font.theme = NoneS]
     ELSE r2

\* The run loop body of _apply_styles_to_frame.  When the colour step
\* raises, the name and size have already been assigned.
ApplyStylesToRun(run, cfg) ==
  LET r1 == ApplyNameSize(run, cfg)
  IN IF WantsColor(cfg) /\ ~ColorRaises(cfg)
     THEN [r1 EXCEPT !.font.ctype = ColorTypeRGB,
                     !.font.rgb = HexToRgb(cfg.text_color).rgb,
                     !.font.theme = NoneS]
     ELSE r1

\* _apply_styles_to_frame: [tf, raised].  With a colour that raises, the
\* first run in scan order is the last one touched.
ApplyStylesToFrame(text_frame, cfg) ==
  LET ixs == FrameRunIxs(text_frame)
      isFirst(ix) == \A h \in ixs : h = ix \/ Before(ix, h)
      aborts == ColorRaises(cfg) /\ ixs /= {}
  IN [tf |-> [p \in DOMAIN text_frame |->
                [k \in DOMAIN text_frame[p] |->
                   IF ~aborts \/ isFirst(<<p, k>>)
                   THEN ApplyStylesToRun(text_frame[p][k], cfg)
                   ELSE text_frame[p][k]]],
      raised |-> aborts]

\* _apply_styles_to_table: the cells in row order; an exception ends the
\* table's loop and is swallowed by its except clause.
RECURSIVE ApplyStylesToCells(_, _)
ApplyStylesToCells(cells, cfg) ==
  IF cells = <<>> THEN <<>>
  ELSE LET res == ApplyStylesToFrame(Head(cells), cfg)
       IN IF res.raised THEN <<res.tf>> \o Tail(cells)
          ELSE <<res.tf>> \o ApplyStylesToCells(Tail(cells), cfg)

ApplyStylesToTable(cells, cfg) == ApplyStylesToCells(cells, cfg)

\* One iteration of the shape loop of modify_styles: [shape, raised].
ApplyStylesToShape(shape, cfg) ==
  IF HasTextFrame(shape)
  THEN LET res == ApplyStylesToFrame(shape.tf, cfg)
       IN [shape |-> [shape EXCEPT !.tf = res.tf], raised |-> res.raised]
  ELSE IF TableRaises(shape) THEN [shape |-> shape, raised |-> TRUE]
  ELSE IF HasTable(shape)
  THEN [shape |-> [shape EXCEPT !.cells = ApplyStylesToTable(shape.cells, cfg)],
        raised |-> FALSE]
  ELSE [shape |-> shape, raised |-> FALSE]

\* The <<slide, shape>> positions of a presentation, and the loop order.
ShapeIxs(slides) ==
  UNION {{<<i, j>> : j \in DOMAIN slides[i]} : i \in DOMAIN slides}

\* modify_styles: the presentation after the call and whether it raised.
\* The slide and shape loops run in order up to and including the first
\* shape whose iteration raises; nothing after it is visited.
ModifyStylesOn(slides, cfg) ==
  LET raising == {ix \in ShapeIxs(slides) :
                    ApplyStylesToShape(slides[ix[1]][ix[2]], cfg).raised}
      visited(ix) == \A r \in raising : r = ix \/ Before(ix, r)
  IN [doc |-> [i \in DOMAIN slides |->
                 [j \in DOMAIN slides[i] |->
                    IF visited(<<i, j>>)
                    THEN ApplyStylesToShape(slides[i][j], cfg).shape
                    ELSE slides[i][j]]],
      raised |-> raising /= {}]

\* ------------------------------------------------------------------ reader
Space == <<" ">>
Newline == <<"\n">>

\* paragraph.text: the texts of the paragraph's runs, concatenated.
ParagraphText(paragraph) ==
  Concat([k \in DOMAIN paragraph |-> paragraph[k].text])

\* cell.text: the cell's paragraphs joined by a line feed.
CellText(text_frame) ==
  Join([p \in DOMAIN text_frame |-> ParagraphText(text_frame[p])], Newline)

\* The members of a sequence of texts that are non-empty, in order.
RECURSIVE NonEmpty(_)
NonEmpty(ts) ==
  IF ts = <<>> THEN <<>>
  ELSE IF Head(ts) /= <<>> THEN <<Head(ts)>> \o NonEmpty(Tail(ts))
  ELSE NonEmpty(Tail(ts))

\* The members whose strip() is non-empty, unstripped, in order.
RECURSIVE NonBlank(_)
NonBlank(ts) ==
  IF ts = <<>> THEN <<>>
  ELSE IF Strip(Head(ts)) /= <<>> THEN <<Head(ts)>> \o NonBlank(Tail(ts))
  ELSE NonBlank(Tail(ts))

\* The cell loop of _extract_table_text raises part-way; its except clause
\* logs a warning and the function goes on to its return statement.
TableTextFails(shape) == shape.kind = "badtable"

\* _extract_table_text: the stripped non-empty texts of the cells read,
\* space-joined.  For a table whose cell loop raises these are the cells
\* before the failing one: the parts collected so far are still returned.
ExtractTableText(cells) ==
  Join(NonEmpty([c \in DOMAIN cells |-> Strip(CellText(cells[c]))]), Space)

\* _extract_text_from_shape, for a shape none of whose parts raises.
RECURSIVE ExtractTextFromShape(_)
ExtractTextFromShape(shape) ==
  LET paras == IF HasTextFrame(shape)
               THEN NonEmpty([p \in DOMAIN shape.tf |-> Strip(ParagraphText(shape.tf[p]))])
               ELSE <<>>
      table == IF HasTable(shape) /\ ExtractTableText(shape.cells) /= <<>>
               THEN <<ExtractTableText(shape.cells)>>
               ELSE <<>>
      subs  == IF HasShapes(shape)
               THEN NonBlank([j \in DOMAIN shape.subs |-> ExtractTextFromShape(shape.subs[j])])
               ELSE <<>>
  IN Join(paras \o table \o subs, Space)

\* The table access of _extract_text_from_shape raises for the shape or for
\* a shape nested in it; nothing between there and the caller catches it.
RECURSIVE ExtractRaises(_)
ExtractRaises(shape) ==
  \/ TableRaises(shape)
  \/ HasShapes(shape) /\ \E j \in DOMAIN shape.subs : ExtractRaises(shape.subs[j])

\* A slide counter that starts at one.
SlideNumberFromOne(i) == i

\* enumerate(prs.slides): the number given to the i-th slide (i from 1).
SlideNumber(i) == i - 1

\* The slide loop body with every shape's text appended, blank or not.
SlideTextPartsUnfiltered(shapes) ==
  [j \in DOMAIN shapes |-> ExtractTextFromShape(shapes[j])]

\* slide_text_parts: the texts of the slide's shapes that are not blank.
SlideTextParts(shapes) ==
  NonBlank([j \in DOMAIN shapes |-> ExtractTextFromShape(shapes[j])])

\* extract_text_from_pptx: one SlideText per slide, or the exception.
ExtractTextFromPptx(slides) ==
  IF \E i \in DOMAIN slides : \E j \in DOMAIN slides[i] : ExtractRaises(slides[i][j])
  THEN [status |-> "raised", slides |-> <<>>]
  ELSE [status |-> "ok",
        slides |-> [i \in DOMAIN slides |->
                      [slide_number |-> SlideNumber(i),
                       text |-> Join(SlideTextParts(slides[i]), Space),
                       shape_count |-> Len(slides[i])]]]

NoResult == [status |-> "none", slides |-> <<>>]

\* ------------------------------------------------------------------ inputs
ta == <<"a">>
tb == <<"b">>
taa == <<"a", "a">>
tab == <<"a", "b">>
taba == <<"a", "b", "a">>
taaa == <<"a", "a", "a">>
tsp == <<" ">>
tsa == <<" ", "a", " ">>

SlideEmpty == <<>>
\* one paragraph of two runs that both contain "a"; "aa" spans the two
SlideTwoRuns ==
  <<TextShape(<< <<MkRun(ta, FontExplicit), MkRun(tab, FontTheme)>> >>)>>
\* a table of two cells and then a text box
SlideTable ==
  <<TableShape(<< << <<MkRun(taaa, FontInherit)>> >>,
                  << <<MkRun(tsp, FontInherit)>>, <<MkRun(tb, FontExplicit)>> >> >>),
    TextShape(<< <<MkRun(taba, FontExplicit)>>, <<>> >>)>>
\* a chart between two text boxes; "aa" spans the runs of the first and is
\* in no run of the slide
SlideChart ==
  <<TextShape(<< <<MkRun(ta, FontInherit), MkRun(tab, FontTheme)>> >>),
    ChartFrame,
    TextShape(<< <<MkRun(ta, FontExplicit)>> >>)>>
\* a group with a text box, a picture, and a text box with blank paragraphs
SlideGroup ==
  <<GroupShape(<<TextShape(<< <<MkRun(tab, FontInherit)>> >>), Picture>>),
    Picture,
    TextShape(<< <<MkRun(tsa, FontTheme)>>, <<MkRun(tsp, FontInherit)>> >>)>>
\* a table with one readable cell and then an unreadable one, and a text box
SlideBrokenTable ==
  <<BrokenTableShape(<< << <<MkRun(taaa, FontInherit)>> >> >>),
    TextShape(<< <<MkRun(tb, FontExplicit)>> >>)>>
\* shapes, none with extractable text
SlideBlank ==
  <<Picture, TextShape(<< <<MkRun(tsp, FontInherit)>>, <<>> >>), GroupShape(<<Picture>>)>>
\* a text box of two runs, a table, a group and a text box whose run has
\* two occurrences of "a"
SlideRich ==
  <<TextShape(<< <<MkRun(ta, FontExplicit), MkRun(tab, FontTheme)>> >>),
    TableShape(<< << <<MkRun(taaa, FontInherit)>> >>,
                  << <<MkRun(tsp, FontInherit)>>, <<MkRun(tb, FontExplicit)>> >> >>),
    GroupShape(<<TextShape(<< <<MkRun(tab, FontInherit)>> >>), Picture>>),
    TextShape(<< <<MkRun(taba, FontExplicit)>>, <<>> >>)>>

\* Every sequence of at most n members of S.
SeqsUpTo(S, n) == UNION {[1..m -> S] : m \in 0..n}

\* The files given to the reader.
SlidePool ==
  {SlideEmpty, SlideTwoRuns, SlideTable, SlideChart, SlideGroup, SlideBlank, SlideRich,
   SlideBrokenTable}
Documents == SeqsUpTo(SlidePool, MaxSlides)

\* The files opened by the writer.
WriterSlidePool == {SlideRich, SlideChart}
WriterDocuments == SeqsUpTo(WriterSlidePool, MaxSlides)

\* Replacement(slide_num, old_text, new_text); slide_num is never negative
\* (Field(ge=0)), and may be past the last slide.
TextPairs ==
  {[old_text |-> ta, new_text |-> tab],
   [old_text |-> taa, new_text |-> tb],
   [old_text |-> <<>>, new_text |-> tb]}
Replacements ==
  {[slide_num |-> n, old_text |-> tp.old_text, new_text |-> tp.new_text] :
     n \in 0..MaxSlides, tp \in TextPairs}

\* The lists replace_content is called with.
ReplacementLists == SeqsUpTo(Replacements, MaxRepl)

\* Hex colours: "#FF8000", "0a0B0c", "12345" (five digits still parse) and
\* "#FFF" (the third slice is empty and int() raises).
HexOrange == <<"#", "F", "F", "8", "0", "0", "0">>
HexNoHash == <<"0", "a", "0", "B", "0", "c">>
HexFive == <<"1", "2", "3", "4", "5">>
HexShort == <<"#", "F", "F", "F">>

\* StyleConfig values; font_size is within Field(ge=8, le=72) or absent.
StyleConfigs ==
  {MkStyle(NoneS, NoneLen, NoneT),
   MkStyle("Calibri", NoneLen, NoneT),
   MkStyle("", NoneLen, <<>>),
   MkStyle(NoneS, 18, NoneT),
   MkStyle(NoneS, NoneLen, HexOrange),
   MkStyle("Calibri", 18, HexNoHash),
   MkStyle("Verdana", NoneLen, HexFive),
   MkStyle("Calibri", 18, HexShort),
   MkStyle(NoneS, NoneLen, HexShort)}

\* ------------------------------------------------------------------- state
VARIABLES
  file,          \* the document stored at pptx_path
  presentation,  \* PPTModifier.presentation, the in-memory document
  pc,            \* "idle", "replacing" (inside replace_content), "raised"
  replacements,  \* the argument of the running / last replace_content call
  idx,           \* position of the for loop of replace_content (from 1)
  log,           \* one entry per finished iteration of that loop
  styleLog,      \* one entry per modify_styles call
  results        \* what extract_text_from_pptx gave for the file

VARIABLES
  detector_instance,  \* _detector_instance: NoInstance or a place in loads
  loads,              \* the AIDetector objects constructed so far, in order
  assigned,           \* the values assigned to _detector_instance, in order
  thread,             \* per caller of get_detector: where it is in the call
  calls,              \* one entry per finished get_detector call
  detections          \* one entry per finished AIDetector.detect call

VARIABLES
  request,           \* the upload and the form fields of the request handled
  hpc,               \* where its route handler is
  temp_input,        \* the handler's temp_input / temp_path: NoneS or a name
  temp_output,       \* the handler's temp_output: NoneS or a name
  tempdir,           \* the names of the files in the temporary directory
  slide_idx,         \* position of the handler's loop over slides_text (from 1)
  slide_detections,  \* detect_pptx: the SlideDetection list built so far
  ai_count,          \* detect_pptx: ai_count
  output_doc,        \* the document written by modifier.save
  response,          \* what the handler gave back
  caught,            \* the exception the handler's except clause caught
  trace              \* the operations the handler has carried out, in order

VARIABLES
  gen_input,    \* the text the rewriter was first given
  gen_text,     \* generate: modified_text
  gen_k,        \* generate: the entry of word_replacements the loop is at (0: no call)
  gen_outputs   \* what the calls of generate returned, each given the one before

VARIABLES
  import_ok,    \* whether post_automation.core.ai_detector can be imported
  health        \* what GET /api/health answered last

docVars == <<file, presentation, pc, replacements, idx, log, styleLog, results>>
detVars == <<detector_instance, loads, assigned, thread, calls, detections>>
reqVars == <<request, hpc, temp_input, temp_output, tempdir, slide_idx,
             slide_detections, ai_count, output_doc, response, caught, trace>>
genVars == <<gen_input, gen_text, gen_k, gen_outputs>>
probeVars == <<import_ok, health>>
vars == <<docVars, detVars, reqVars, genVars, probeVars>>

\* ai_detector.py at import: no detector, no caller inside get_detector.
NoInstance == 0
ThreadIdle == [pc |-> "idle", model_name |-> NoneS, fresh |-> NoInstance]
DetectorUnset ==
  /\ detector_instance = NoInstance
  /\ loads = <<>>
  /\ assigned = <<>>
  /\ thread = [t \in 1..MaxCallers |-> ThreadIdle]
  /\ calls = <<>>
  /\ detections = <<>>

\* PPTModifier(pptx_path): the presentation is loaded from the file.
DocsOn(docs) ==
  /\ file \in docs
  /\ presentation = file
  /\ pc = "idle"
  /\ replacements = <<>>
  /\ idx = 1
  /\ log = <<>>
  /\ styleLog = <<>>
  /\ results = NoResult

\* No request has arrived.
NoRequest ==
  [kind |-> "none", filename |-> <<>>, size |-> 0, parses |-> FALSE, doc |-> <<>>,
   replace_ai_content |-> FALSE, font_name |-> NoneS, text_color |-> NoneT,
   confidence_threshold |-> 0, text |-> <<>>, model |-> NoneS]
NoBody == [total_slides |-> 0, ai_slides |-> 0, human_slides |-> 0, slides |-> <<>>]
NoResponse ==
  [status |-> 0, body |-> NoBody, path |-> NoneS, detail |-> NoneS, error_type |-> NoneS]

\* An exception: the name of its class and str() of it.
Exc(type, message) == [type |-> type, message |-> message]
NoExc == Exc(NoneS, NoneS)
HandlerIdle ==
  /\ request = NoRequest
  /\ hpc = "idle"
  /\ temp_input = NoneS
  /\ temp_output = NoneS
  /\ tempdir = {}
  /\ slide_idx = 1
  /\ slide_detections = <<>>
  /\ ai_count = 0
  /\ output_doc = <<>>
  /\ response = NoResponse
  /\ caught = NoExc
  /\ trace = <<>>

\* generate has not been called.
GeneratorIdle ==
  /\ gen_input = <<>>
  /\ gen_text = <<>>
  /\ gen_k = 0
  /\ gen_outputs = <<>>

\* The detector module is imported and /health has not been asked.
NoHealth == [status |-> NoneS, version |-> NoneS, models_loaded |-> FALSE]
ProbeIdle ==
  /\ import_ok = TRUE
  /\ health = NoHealth

InitOn(docs) == DocsOn(docs) /\ DetectorUnset /\ HandlerIdle /\ GeneratorIdle /\ ProbeIdle

InitWriter == InitOn(WriterDocuments)
InitReader == InitOn(Documents)

\* The handle has not been used yet.
Fresh == pc = "idle" /\ log = <<>> /\ styleLog = <<>> /\ replacements = <<>>

\* A loop of replace_content without the try/except around its body.
AfterIterationUncaught(raised) == IF raised THEN "raised" ELSE "replacing"

\* Where replace_content is after one iteration: the except clause logs the
\* exception and the loop goes on.
AfterIteration(raised) == "replacing"

\* replace_content is called with a list of replacements.
ReplaceContent(rs) ==
  /\ Fresh
  /\ results = NoResult
  /\ pc' = "replacing"
  /\ replacements' = rs
  /\ idx' = 1
  /\ UNCHANGED <<file, presentation, log, styleLog, results, detVars, reqVars>>
  /\ UNCHANGED <<genVars, probeVars>>

\* One iteration of the for loop of replace_content.
ReplaceNext ==
  /\ pc = "replacing"
  /\ idx <= Len(replacements)
  /\ LET r == replacements[idx]
         res == ReplaceInSlide(presentation, r.slide_num, r.old_text, r.new_text)
     IN /\ presentation' = res.doc
        /\ log' = Append(log, [replacement |-> r, before |-> presentation,
                               after |-> res.doc, raised |-> res.raised])
        /\ pc' = AfterIteration(res.raised)
  /\ idx' = idx + 1
  /\ UNCHANGED <<file, replacements, styleLog, results, detVars, reqVars>>
  /\ UNCHANGED <<genVars, probeVars>>

\* The for loop is exhausted and replace_content returns.
ReplaceReturn ==
  /\ pc = "replacing"
  /\ idx > Len(replacements)
  /\ pc' = "replaced"
  /\ UNCHANGED <<file, presentation, replacements, idx, log, styleLog, results, detVars, reqVars>>
  /\ UNCHANGED <<genVars, probeVars>>

\* modify_styles(style_config), on a handle not used for replacement.
ModifyStyles(cfg) ==
  /\ pc = "idle"
  /\ results = NoResult
  /\ Len(styleLog) < MaxStyleCalls
  /\ LET res == ModifyStylesOn(presentation, cfg)
     IN /\ presentation' = res.doc
        /\ styleLog' = Append(styleLog, [cfg |-> cfg, before |-> presentation,
                                         after |-> res.doc, raised |-> res.raised])
  /\ UNCHANGED <<file, pc, replacements, idx, log, results, detVars, reqVars>>
  /\ UNCHANGED <<genVars, probeVars>>

\* PPTAnalyzer.extract_text_from_pptx(pptx_path)
ExtractText ==
  /\ Fresh
  /\ results = NoResult
  /\ results' = ExtractTextFromPptx(file)
  /\ UNCHANGED <<file, presentation, pc, replacements, idx, log, styleLog, detVars, reqVars>>
  /\ UNCHANGED <<genVars, probeVars>>

\* The writer's content replacement on an opened presentation.
NextReplace ==
  \/ pc = "idle" /\ \E rs \in ReplacementLists : ReplaceContent(rs)
  \/ ReplaceNext
  \/ ReplaceReturn

SpecReplace == InitWriter /\ [][NextReplace]_vars

\* The writer's style override, called up to MaxStyleCalls times.
NextStyle == pc = "idle" /\ \E cfg \in StyleConfigs : ModifyStyles(cfg)

SpecStyle == InitWriter /\ [][NextStyle]_vars

\* The reader on a file.
NextRead == ExtractText

SpecRead == InitReader /\ [][NextRead]_vars

\* ------------------------------------------------------ classifier wrapper
\* Model identifiers: the default of settings.hf_model_name and another one.
ModelDefault == "roberta-base-openai-detector"
ModelOther == "other-detector"

\* The model_name arguments of get_detector: None (every caller but
\* detect_text), or the request's model field.
ModelArgs == {NoneS, ModelDefault, ModelOther}

\* AIDetector.__init__: self.model_name = model_name or settings.hf_model_name
EffectiveModelName(model_name) ==
  IF model_name \in {NoneS, ""} THEN ModelDefault ELSE model_name

\* The number of get_detector calls begun so far.
CallsBegun == Len(calls) + Cardinality({t \in DOMAIN thread : thread[t].pc /= "idle"})

\* get_detector(model_name) is entered by caller t.
GetDetector(t, m) ==
  /\ thread[t].pc = "idle"
  /\ CallsBegun < MaxCalls
  /\ thread' = [thread EXCEPT ![t] = [pc |-> "check", model_name |-> m, fresh |-> NoInstance]]
  /\ UNCHANGED <<detector_instance, loads, assigned, calls, detections, docVars, reqVars>>
  /\ UNCHANGED <<genVars, probeVars>>

\* if _detector_instance is None
CheckInstance(t) ==
  /\ thread[t].pc = "check"
  /\ thread' = [thread EXCEPT ![t].pc =
                  IF detector_instance = NoInstance THEN "construct" ELSE "return"]
  /\ UNCHANGED <<detector_instance, loads, assigned, calls, detections, docVars, reqVars>>
  /\ UNCHANGED <<genVars, probeVars>>

\* AIDetector(model_name) loads the tokenizer and the model and returns.
Construct(t) ==
  /\ thread[t].pc = "construct"
  /\ loads' = Append(loads, [model_name |-> EffectiveModelName(thread[t].model_name)])
  /\ thread' = [thread EXCEPT ![t].pc = "assign", ![t].fresh = Len(loads) + 1]
  /\ UNCHANGED <<detector_instance, assigned, calls, detections, docVars, reqVars>>
  /\ UNCHANGED <<genVars, probeVars>>

\* A failed construction that leaves its unfinished object in the global.
ConstructRaisesAssigning(t) ==
  /\ thread[t].pc = "construct"
  /\ loads' = Append(loads, [model_name |-> NoneS])
  /\ detector_instance' = Len(loads) + 1
  /\ assigned' = Append(assigned, Len(loads) + 1)
  /\ calls' = Append(calls, [caller |-> t, model_name |-> thread[t].model_name,
                              returned |-> NoInstance, raised |-> TRUE])
  /\ thread' = [thread EXCEPT ![t] = ThreadIdle]
  /\ UNCHANGED <<detections, docVars, reqVars>>
  /\ UNCHANGED <<genVars, probeVars>>

\* AIDetector(model_name) raises (the model cannot be loaded); the exception
\* leaves get_detector before the assignment.
ConstructRaises(t) ==
  /\ thread[t].pc = "construct"
  /\ calls' = Append(calls, [caller |-> t, model_name |-> thread[t].model_name,
                              returned |-> NoInstance, raised |-> TRUE])
  /\ thread' = [thread EXCEPT ![t] = ThreadIdle]
  /\ UNCHANGED <<detector_instance, loads, assigned, detections, docVars, reqVars>>
  /\ UNCHANGED <<genVars, probeVars>>

\* _detector_instance = <the new detector>
AssignInstance(t) ==
  /\ thread[t].pc = "assign"
  /\ detector_instance' = thread[t].fresh
  /\ assigned' = Append(assigned, thread[t].fresh)
  /\ thread' = [thread EXCEPT ![t].pc = "return"]
  /\ UNCHANGED <<loads, calls, detections, docVars, reqVars>>
  /\ UNCHANGED <<genVars, probeVars>>

\* return _detector_instance: the global is read again.
ReturnInstance(t) ==
  /\ thread[t].pc = "return"
  /\ calls' = Append(calls, [caller |-> t, model_name |-> thread[t].model_name,
                              returned |-> detector_instance, raised |-> FALSE])
  /\ thread' = [thread EXCEPT ![t] = ThreadIdle]
  /\ UNCHANGED <<detector_instance, loads, assigned, detections, docVars, reqVars>>
  /\ UNCHANGED <<genVars, probeVars>>

\* Callers of get_detector in one process: the steps of one call are taken
\* in order, those of different callers in any order (the function takes
\* no lock, and the pages of the UI run each session in a thread of its own).
NextGetDetector ==
  \/ \E t \in 1..MaxCallers : \E m \in ModelArgs : GetDetector(t, m)
  \/ \E t \in 1..MaxCallers : CheckInstance(t)
  \/ \E t \in 1..MaxCallers : Construct(t)
  \/ \E t \in 1..MaxCallers : ConstructRaises(t)
  \/ \E t \in 1..MaxCallers : AssignInstance(t)
  \/ \E t \in 1..MaxCallers : ReturnInstance(t)

InitGetDetector == InitOn({<<>>})

SpecGetDetector == InitGetDetector /\ [][NextGetDetector]_vars

\* Probabilities and confidences are counted in tenths: 5 is 0.5, 10 is 1.0.
AiThreshold == 5
ConfidenceMin == 0
ConfidenceMax == 10
MinTextLengthForDetection == 50

\* float(probabilities[0][1]): the softmax gives a probability.
ModelOutputs == ConfidenceMin..ConfidenceMax

\* The text n times over.
Repeat(t, n) == Concat([i \in 1..n |-> t])

\* Texts given to detect: of 2, 10 and 50 characters, and one of 51 that
\* strips to 49.
DetectTexts == {tab, Repeat(ta, 10), Repeat(ta, 50), Space \o Repeat(ta, 49) \o Space}

\* A threshold that the probability 0.5 itself reaches.
IsAiAtLeast(ai_probability) == ai_probability >= AiThreshold

\* is_ai = ai_probability > 0.5
IsAi(ai_probability) == ai_probability > AiThreshold

\* DetectionResult's Field(ge=0.0, le=1.0) on confidence: the constructor
\* raises for a value outside.
ConfidenceValid(confidence) ==
  confidence >= ConfidenceMin /\ confidence <= ConfidenceMax

\* AIDetector.detect(text) on a detector of the given model_name, the model
\* giving ai_probability for the text.
DetectOn(model_name, text, ai_probability) ==
  [text |-> text,
   warned |-> Len(Strip(text)) < MinTextLengthForDetection,
   raised |-> ~ConfidenceValid(ai_probability),
   is_ai_generated |-> IsAi(ai_probability),
   confidence |-> ai_probability,
   label |-> IF IsAi(ai_probability) THEN "AI" ELSE "Human",
   model_name |-> model_name]

\* detector.detect(text) on the shared detector.
Detect(text, ai_probability) ==
  /\ detector_instance /= NoInstance
  /\ Len(detections) < MaxDetections
  /\ detections' = Append(detections,
                          DetectOn(loads[detector_instance].model_name, text, ai_probability))
  /\ UNCHANGED <<detector_instance, loads, assigned, thread, calls, docVars, reqVars>>
  /\ UNCHANGED <<genVars, probeVars>>

NextDetect == \E text \in DetectTexts : \E p \in ModelOutputs : Detect(text, p)

\* A process whose detector has been loaded, for either model.
InitDetect ==
  /\ DocsOn({<<>>})
  /\ loads \in {<<[model_name |-> m]>> : m \in {ModelDefault, ModelOther}}
  /\ detector_instance = 1
  /\ assigned = <<1>>
  /\ thread = [t \in 1..MaxCallers |-> ThreadIdle]
  /\ calls = <<>>
  /\ detections = <<>>
  /\ HandlerIdle
  /\ GeneratorIdle
  /\ ProbeIdle

SpecDetect == InitDetect /\ [][NextDetect]_vars

\* ------------------------------------------------------ rule-based rewriter
UpperCase == <<"A", "B", "C", "D", "E", "F", "G", "H", "I", "J", "K", "L", "M",
               "N", "O", "P", "Q", "R", "S", "T", "U", "V", "W", "X", "Y", "Z">>
LowerCase == <<"a", "b", "c", "d", "e", "f", "g", "h", "i", "j", "k", "l", "m",
               "n", "o", "p", "q", "r", "s", "t", "u", "v", "w", "x", "y", "z">>

\* The character as re.IGNORECASE compares it (ASCII letters).
Lower(c) ==
  IF \E k \in DOMAIN UpperCase : UpperCase[k] = c
  THEN LowerCase[CHOOSE k \in DOMAIN UpperCase : UpperCase[k] = c]
  ELSE c

\* \w, for the characters of the texts of the model.
IsWordChar(c) ==
  \/ \E k \in DOMAIN LowerCase : LowerCase[k] = Lower(c)
  \/ c \in {"0", "1", "2", "3", "4", "5", "6", "7", "8", "9", "_"}

\* A match that tells upper case from lower case.
MatchAtCaseSensitive(text, i, pattern) ==
  /\ i + Len(pattern) - 1 <= Len(text)
  /\ \A k \in DOMAIN pattern : text[i + k - 1] = pattern[k]

\* The literal pattern matches the text at position i, whatever the case.
MatchAtCI(text, i, pattern) ==
  /\ i + Len(pattern) - 1 <= Len(text)
  /\ \A k \in DOMAIN pattern : Lower(text[i + k - 1]) = Lower(pattern[k])

\* re.compile(re.escape(phrase), re.IGNORECASE).sub(replacement, text), from
\* position i on: the matches are taken leftmost first and do not overlap.
RECURSIVE SubCIFrom(_, _, _, _)
SubCIFrom(text, i, phrase, replacement) ==
  IF i > Len(text) THEN <<>>
  ELSE IF MatchAtCI(text, i, phrase)
       THEN replacement \o SubCIFrom(text, i + Len(phrase), phrase, replacement)
       ELSE <<text[i]>> \o SubCIFrom(text, i + 1, phrase, replacement)

\* self.word_replacements, in the order of the dict literal.
WordReplacements ==
  <<[phrase |-> <<"u", "t", "i", "l", "i", "z", "e">>,
    replacement |-> <<"u", "s", "e">>],
   [phrase |-> <<"i", "n", " ", "o", "r", "d", "e", "r", " ", "t", "o">>,
    replacement |-> <<"t", "o">>],
   [phrase |-> <<"d", "u", "e", " ", "t", "o", " ", "t", "h", "e", " ", "f", "a", "c", "t", " ", "t", "h", "a", "t">>,
    replacement |-> <<"b", "e", "c", "a", "u", "s", "e">>],
   [phrase |-> <<"a", "t", " ", "t", "h", "i", "s", " ", "p", "o", "i", "n", "t", " ", "i", "n", " ", "t", "i", "m", "e">>,
    replacement |-> <<"n", "o", "w">>],
   [phrase |-> <<"i", "n", " ", "t", "h", "e", " ", "e", "v", "e", "n", "t", " ", "t", "h", "a", "t">>,
    replacement |-> <<"i", "f">>],
   [phrase |-> <<"f", "o", "r", " ", "t", "h", "e", " ", "p", "u", "r", "p", "o", "s", "e", " ", "o", "f">>,
    replacement |-> <<"t", "o">>],
   [phrase |-> <<"p", "r", "i", "o", "r", " ", "t", "o">>,
    replacement |-> <<"b", "e", "f", "o", "r", "e">>],
   [phrase |-> <<"s", "u", "b", "s", "e", "q", "u", "e", "n", "t", " ", "t", "o">>,
    replacement |-> <<"a", "f", "t", "e", "r">>],
   [phrase |-> <<"i", "n", " ", "c", "l", "o", "s", "e", " ", "p", "r", "o", "x", "i", "m", "i", "t", "y", " ", "t", "o">>,
    replacement |-> <<"n", "e", "a", "r">>],
   [phrase |-> <<"i", "s", " ", "a", "b", "l", "e", " ", "t", "o">>,
    replacement |-> <<"c", "a", "n">>],
   [phrase |-> <<"h", "a", "s", " ", "t", "h", "e", " ", "a", "b", "i", "l", "i", "t", "y", " ", "t", "o">>,
    replacement |-> <<"c", "a", "n">>],
   [phrase |-> <<"i", "n", " ", "s", "p", "i", "t", "e", " ", "o", "f">>,
    replacement |-> <<"d", "e", "s", "p", "i", "t", "e">>],
   [phrase |-> <<"o", "n", " ", "a", " ", "r", "e", "g", "u", "l", "a", "r", " ", "b", "a", "s", "i", "s">>,
    replacement |-> <<"r", "e", "g", "u", "l", "a", "r", "l", "y">>],
   [phrase |-> <<"i", "n", " ", "t", "h", "e", " ", "n", "e", "a", "r", " ", "f", "u", "t", "u", "r", "e">>,
    replacement |-> <<"s", "o", "o", "n">>],
   [phrase |-> <<"a", "t", " ", "t", "h", "e", " ", "p", "r", "e", "s", "e", "n", "t", " ", "t", "i", "m", "e">>,
    replacement |-> <<"c", "u", "r", "r", "e", "n", "t", "l", "y">>],
   [phrase |-> <<"m", "a", "k", "e", " ", "a", " ", "d", "e", "c", "i", "s", "i", "o", "n">>,
    replacement |-> <<"d", "e", "c", "i", "d", "e">>],
   [phrase |-> <<"g", "i", "v", "e", " ", "c", "o", "n", "s", "i", "d", "e", "r", "a", "t", "i", "o", "n", " ", "t", "o">>,
    replacement |-> <<"c", "o", "n", "s", "i", "d", "e", "r">>],
   [phrase |-> <<"m", "a", "k", "e", " ", "a", "n", " ", "a", "s", "s", "u", "m", "p", "t", "i", "o", "n">>,
    replacement |-> <<"a", "s", "s", "u", "m", "e">>],
   [phrase |-> <<"c", "o", "n", "d", "u", "c", "t", " ", "a", "n", " ", "i", "n", "v", "e", "s", "t", "i", "g", "a", "t", "i", "o", "n">>,
    replacement |-> <<"i", "n", "v", "e", "s", "t", "i", "g", "a", "t", "e">>],
   [phrase |-> <<"p", "e", "r", "f", "o", "r", "m", " ", "a", "n", " ", "a", "n", "a", "l", "y", "s", "i", "s">>,
    replacement |-> <<"a", "n", "a", "l", "y", "z", "e">>]>>

\* The for loop of generate over the first n entries of the table, each
\* working on the text the ones before left.
RECURSIVE ApplyWordReplacements(_, _)
ApplyWordReplacements(text, n) ==
  IF n = 0 THEN text
  ELSE SubCIFrom(ApplyWordReplacements(text, n - 1), 1,
                 WordReplacements[n].phrase, WordReplacements[n].replacement)

\* \b at position i (between text[i-1] and text[i]).
WordBoundary(text, i) ==
  LET before == i > 1 /\ IsWordChar(text[i - 1])
      after == i <= Len(text) /\ IsWordChar(text[i])
  IN before /= after

\* The first position from i on that holds no whitespace (\s+ is greedy).
RECURSIVE SkipSpace(_, _)
SkipSpace(text, i) ==
  IF i <= Len(text) /\ IsSpace(text[i]) THEN SkipSpace(text, i + 1) ELSE i

\* The first position from i on that holds no word character.
RECURSIVE SkipWord(_, _)
SkipWord(text, i) ==
  IF i <= Len(text) /\ IsWordChar(text[i]) THEN SkipWord(text, i + 1) ELSE i

\* Where a match of \bword\s+word\b that starts at i ends (the position
\* after it), or 0 when there is none.
DoubledEnd(text, i, word) ==
  LET j == i + Len(word)
      k == SkipSpace(text, j)
  IN IF /\ WordBoundary(text, i)
        /\ MatchAtCI(text, i, word)
        /\ k > j
        /\ MatchAtCI(text, k, word)
        /\ WordBoundary(text, k + Len(word))
     THEN k + Len(word)
     ELSE 0

\* re.sub(r"\bword\s+word\b", word, text, flags=re.IGNORECASE), from i on.
RECURSIVE CollapseDoubledFrom(_, _, _)
CollapseDoubledFrom(text, i, word) ==
  IF i > Len(text) THEN <<>>
  ELSE IF DoubledEnd(text, i, word) /= 0
       THEN word \o CollapseDoubledFrom(text, DoubledEnd(text, i, word), word)
       ELSE <<text[i]>> \o CollapseDoubledFrom(text, i + 1, word)

IsBeing == <<"i", "s", " ", "b", "e", "i", "n", "g">>

\* Where a match of \bis being\s+(\w+ed)\b that starts at i ends, or 0; the
\* group is the word from SkipSpace(text, i + 8) up to there.
PassiveEnd(text, i) ==
  LET j == i + Len(IsBeing)
      k == SkipSpace(text, j)
      e == SkipWord(text, k)
  IN IF /\ WordBoundary(text, i)
        /\ MatchAtCI(text, i, IsBeing)
        /\ k > j
        /\ e - k >= 3
        /\ MatchAtCI(text, e - 2, <<"e", "d">>)
     THEN e
     ELSE 0

\* re.sub(r"\bis being\s+(\w+ed)\b", r"is \1", text, flags=re.IGNORECASE)
RECURSIVE SimplifyPassiveFrom(_, _)
SimplifyPassiveFrom(text, i) ==
  IF i > Len(text) THEN <<>>
  ELSE IF PassiveEnd(text, i) /= 0
       THEN <<"i", "s", " ">>
            \o SubSeq(text, SkipSpace(text, i + Len(IsBeing)), PassiveEnd(text, i) - 1)
            \o SimplifyPassiveFrom(text, PassiveEnd(text, i))
       ELSE <<text[i]>> \o SimplifyPassiveFrom(text, i + 1)

\* A simplification without the rule for "very".
SimplifySentencesKeepingVery(text) ==
  SimplifyPassiveFrom(CollapseDoubledFrom(text, 1, <<"t", "h", "a", "t">>), 1)

\* _simplify_sentences
SimplifySentences(text) ==
  LET t1 == CollapseDoubledFrom(text, 1, <<"t", "h", "a", "t">>)
      t2 == SimplifyPassiveFrom(t1, 1)
  IN CollapseDoubledFrom(t2, 1, <<"v", "e", "r", "y">>)

\* ContentGenerator.generate
Generate(text) ==
  SimplifySentences(ApplyWordReplacements(text, Len(WordReplacements)))

\* Texts given to the rewriter: the sentence of the specification's example;
\* texts in which a replacement completes a phrase of the table with the
\* words before it; a word three times over; a passive and a doubled word
\* two blanks apart; upper case; a phrase completed for a later entry of the
\* table; and each phrase of the table by itself.
TextExample ==
  <<"I", "n", " ", "o", "r", "d", "e", "r", " ", "t", "o", " ", "u", "t",
    "i", "l", "i", "z", "e", " ", "t", "h", "e", " ", "s", "y", "s", "t",
    "e", "m", ",", " ", "p", "r", "i", "o", "r", " ", "t", "o", " ", "d",
    "e", "p", "l", "o", "y", "m", "e", "n", "t", ",", " ", "o", "n", "e",
    " ", "m", "u", "s", "t", " ", "c", "o", "n", "d", "u", "c", "t", " ",
    "a", "n", " ", "i", "n", "v", "e", "s", "t", "i", "g", "a", "t", "i",
    "o", "n", ",">>
TextOrderTwice ==
  <<"i", "n", " ", "o", "r", "d", "e", "r", " ", "i", "n", " ", "o", "r",
    "d", "e", "r", " ", "t", "o">>
TextOrderPurpose ==
  <<"i", "n", " ", "o", "r", "d", "e", "r", " ", "f", "o", "r", " ", "t",
    "h", "e", " ", "p", "u", "r", "p", "o", "s", "e", " ", "o", "f">>
TextThatThrice ==
  <<"t", "h", "a", "t", " ", "t", "h", "a", "t", " ", "t", "h", "a", "t">>
TextPassive ==
  <<"I", "t", " ", "i", "s", " ", "b", "e", "i", "n", "g", " ", "u", "s",
    "e", "d", " ", "v", "e", "r", "y", " ", " ", "v", "e", "r", "y", " ",
    "o", "f", "t", "e", "n">>
TextUpper ==
  <<"U", "T", "I", "L", "I", "Z", "E", " ", "T", "h", "a", "t", " ", "t",
    "h", "a", "t">>
TextPriorOrder ==
  <<"p", "r", "i", "o", "r", " ", "i", "n", " ", "o", "r", "d", "e", "r",
    " ", "t", "o">>

GenerateTexts ==
  {TextExample, TextOrderTwice, TextOrderPurpose, TextThatThrice, TextPassive,
   TextUpper, TextPriorOrder}
  \cup {WordReplacements[n].phrase : n \in DOMAIN WordReplacements}

\* generate(text) is called, on the text first given or on what the call
\* before returned: modified_text = text
GenerateCall ==
  /\ gen_k = 0
  /\ Len(gen_outputs) < MaxGenerateCalls
  /\ gen_text' = IF gen_outputs = <<>> THEN gen_input ELSE gen_outputs[Len(gen_outputs)]
  /\ gen_k' = 1
  /\ UNCHANGED <<gen_input, gen_outputs, docVars, detVars, reqVars, probeVars>>

\* One iteration of the for loop over self.word_replacements.items():
\* modified_text = pattern.sub(replacement, modified_text)
ApplyPhrase ==
  /\ gen_k \in DOMAIN WordReplacements
  /\ gen_text' = SubCIFrom(gen_text, 1, WordReplacements[gen_k].phrase,
                           WordReplacements[gen_k].replacement)
  /\ gen_k' = gen_k + 1
  /\ UNCHANGED <<gen_input, gen_outputs, docVars, detVars, reqVars, probeVars>>

\* After the loop: modified_text = self._simplify_sentences(modified_text);
\* return modified_text
SimplifyAndReturn ==
  /\ gen_k = Len(WordReplacements) + 1
  /\ gen_outputs' = Append(gen_outputs, SimplifySentences(gen_text))
  /\ gen_text' = SimplifySentences(gen_text)
  /\ gen_k' = 0
  /\ UNCHANGED <<gen_input, docVars, detVars, reqVars, probeVars>>

\* The rewriter applied to a text, and again to what it returned.
NextGenerate ==
  \/ GenerateCall
  \/ ApplyPhrase
  \/ SimplifyAndReturn

InitGenerate ==
  /\ DocsOn({<<>>})
  /\ DetectorUnset
  /\ HandlerIdle
  /\ ProbeIdle
  /\ gen_input \in GenerateTexts
  /\ gen_text = <<>>
  /\ gen_k = 0
  /\ gen_outputs = <<>>

SpecGenerate == InitGenerate /\ [][NextGenerate]_vars

\* ------------------------------------------------- validation and temp files
\* Path(filename).suffix, for a name without a directory part: the name from
\* its last dot on, or "" when it has none or the dot is its first or last
\* character.
LastDot(name) ==
  IF \E i \in DOMAIN name : name[i] = "."
  THEN CHOOSE i \in DOMAIN name :
         name[i] = "." /\ \A j \in (i + 1)..Len(name) : name[j] /= "."
  ELSE 0
Suffix(name) ==
  IF LastDot(name) > 1 /\ LastDot(name) < Len(name)
  THEN SubSeq(name, LastDot(name), Len(name))
  ELSE <<>>

\* str.lower(), for ASCII letters.
LowerText(t) == [k \in DOMAIN t |-> Lower(t[k])]

\* settings.allowed_extensions_list for the default ".pptx,.ppt".
AllowedExtensionsList == <<<<".", "p", "p", "t", "x">>, <<".", "p", "p", "t">>>>

\* settings.max_upload_size_mb and max_upload_size_bytes.
MaxUploadSizeMb == 10
MaxUploadSizeBytes == MaxUploadSizeMb * 1024 * 1024

\* validate_file_size raises ValidationError.
ValidateFileSizeRaises(file_size) == file_size > MaxUploadSizeBytes

\* A validation without the extension test.
ValidatePptxFileRaisesSizeOnly(filename, file_size) ==
  ValidateFileSizeRaises(file_size)

\* validate_pptx_file raises ValidationError.
ValidatePptxFileRaises(filename, file_size) ==
  \/ ~\E k \in DOMAIN AllowedExtensionsList :
        AllowedExtensionsList[k] = LowerText(Suffix(filename))
  \/ ValidateFileSizeRaises(file_size)

\* The exception validate_pptx_file raises: the extension is tested first.
ValidatePptxFileError(filename, file_size) ==
  IF ~\E k \in DOMAIN AllowedExtensionsList :
        AllowedExtensionsList[k] = LowerText(Suffix(filename))
  THEN Exc("ValidationError", "Invalid file extension")
  ELSE Exc("ValidationError", "File size exceeds maximum allowed size")

\* TextDetectionRequest.text: Field(min_length=10), tested by the framework
\* on the text as sent, before the handler is entered.
TextFieldMinLength == 10

\* validate_text_input(text, min_length=10, max_length=100000)
TextMinLength == 10
TextMaxLength == 100000

\* The exception validate_text_input raises, NoExc when it returns.
ValidateTextInputError(text) ==
  IF text = <<>> \/ Strip(text) = <<>>
  THEN Exc("ValidationError", "Text input cannot be empty")
  ELSE IF Len(Strip(text)) < TextMinLength
  THEN Exc("ValidationError", "Text must be at least 10 characters long")
  ELSE IF Len(Strip(text)) > TextMaxLength
  THEN Exc("ValidationError", "Text must not exceed 100000 characters")
  ELSE NoExc

\* file.filename or "unknown.pptx"
UnknownPptx == <<"u", "n", "k", "n", "o", "w", "n", ".", "p", "p", "t", "x">>
FilenameOr(filename, default) ==
  IF filename \in {NoneT, <<>>} THEN default ELSE filename

\* The names generate_temp_filename gives (a fresh uuid4 each): the one of
\* the saved upload and the one of the modified output.
UploadName == "upload"
\* A name generator that gives the name of the saved upload again.
OutputNameOfUpload == "upload"
OutputName == "output"

\* ------------------------------------------------------------ route handlers
NameDeck == <<"d", "e", "c", "k", ".", "p", "p", "t", "x">>
NameUpperPpt == <<"D", "E", "C", "K", ".", "P", "P", "T">>
NameNotes == <<"n", "o", "t", "e", "s", ".", "t", "x", "t">>
NameNoSuffix == <<"d", "e", "c", "k">>

\* a text box whose single run is a phrase of the rewriter's table
SlideUtilize == <<TextShape(<< <<MkRun(<<"u", "t", "i", "l", "i", "z", "e">>, FontExplicit)>> >>)>>

\* The word in two shapes: the slide text is "utilize utilize".
SlideUtilizeTwice ==
  <<TextShape(<< <<MkRun(<<"u", "t", "i", "l", "i", "z", "e">>, FontExplicit)>> >>),
    TextShape(<< <<MkRun(<<"u", "t", "i", "l", "i", "z", "e">>, FontInherit)>> >>)>>

HandlerSlidePool == {SlideBlank, SlideUtilizeTwice, SlideRich}
HandlerDocuments ==
  SeqsUpTo(HandlerSlidePool, MaxSlides) \cup {<<SlideChart>>, <<SlideUtilize>>}

\* An upload: its file name, its size in bytes, whether its content is a
\* presentation the document library can open, and that presentation.
MkUpload(n, sz, ok, d) == [filename |-> n, size |-> sz, parses |-> ok, doc |-> d]
Uploads ==
  {MkUpload(NameDeck, 1, TRUE, d) : d \in HandlerDocuments}
  \cup {MkUpload(NameUpperPpt, MaxUploadSizeBytes, TRUE, <<SlideUtilize>>),
        MkUpload(NameDeck, MaxUploadSizeBytes + 1, TRUE, <<SlideUtilize>>),
        MkUpload(NameNotes, 1, FALSE, <<>>),
        MkUpload(NameNoSuffix, 1, TRUE, <<SlideUtilize>>),
        MkUpload(NameDeck, 1, FALSE, <<>>)}

\* Thresholds 0.0 and 0.7 (the default), in tenths.
Thresholds == {0, 7}

\* The probabilities the model gives for slides: 0.5, 0.6 and 0.7.
SlideOutputs == {5, 6, 7}

MkRequest(k, u, r, f, c, t) ==
  [kind |-> k, filename |-> u.filename, size |-> u.size, parses |-> u.parses,
   doc |-> u.doc, replace_ai_content |-> r, font_name |-> f, text_color |-> c,
   confidence_threshold |-> t, text |-> <<>>, model |-> NoneS]

\* POST /detect/pptx with a file.
DetectRequests == {MkRequest("detect", u, FALSE, NoneS, NoneT, 0) : u \in Uploads}

\* POST /modify/pptx with a file and the form fields.
ModifyRequests ==
  {MkRequest("modify", u, r, f, c, t) :
     u \in Uploads, r \in BOOLEAN, f \in {NoneS, "Calibri"},
     c \in {NoneT, HexOrange, HexShort}, t \in Thresholds}

Requests == DetectRequests \cup ModifyRequests

\* Texts sent to /detect/text: none, nine characters, ten characters, ten
\* blanks, twelve characters that strip to eight, and one character more
\* than max_length.
TextRequestTexts ==
  {<<>>, Repeat(ta, 9), Repeat(ta, 10), Repeat(Space, 10),
   Space \o Space \o Repeat(ta, 8) \o Space \o Space,
   [i \in 1..(TextMaxLength + 1) |-> "a"]}

\* POST /detect/text with a TextDetectionRequest.
TextRequests ==
  {[NoRequest EXCEPT !.kind = "text", !.text = t, !.model = m] :
     t \in TextRequestTexts, m \in {ModelDefault, ModelOther}}

Event(op, slide) == [op |-> op, slide |-> slide]

\* raise HTTPException(status_code=..., detail=...): the answer the framework
\* makes of it has the status and the detail, and nothing else.
HttpError(status, detail) ==
  [status |-> status, body |-> NoBody, path |-> NoneS, detail |-> detail,
   error_type |-> NoneS]

\* The except clauses of the route handlers: a ValidationError becomes a 400
\* and any other exception a 500, each with detail=str(e).
ExceptClause(e) ==
  IF e.type = "ValidationError" THEN HttpError(400, e.message)
  ELSE HttpError(500, e.message)

\* global_exception_handler, for an exception that leaves a route: a 500
\* whose content has the message and the name of the exception's class.
GlobalExceptionHandler(e) ==
  [status |-> 500, body |-> NoBody, path |-> NoneS, detail |-> e.message,
   error_type |-> e.type]

\* The exceptions of the document library, the model loader and the file
\* system that the handlers meet.
PackageNotFound == Exc("PackageNotFoundError", "Package not found")
NoTableInFrame == Exc("ValueError", "shape does not contain a table")
BadHexColor == Exc("ValueError", "invalid literal for int() with base 16")
ModelLoadFailed == Exc("OSError", "model cannot be loaded")
SaveFailed == Exc("OSError", "No space left on device")

\* The fields of a DetectionResult.
DetectionResultOf(d) ==
  [is_ai_generated |-> d.is_ai_generated, confidence |-> d.confidence,
   label |-> d.label, model_name |-> d.model_name]

\* The slide the loop is at.
CurrentSlide == results.slides[slide_idx]
InLoop == hpc = "loop" /\ slide_idx \in DOMAIN results.slides

\* A loop that takes every slide to have text.
HasTextAlways(slide_text) == TRUE

\* if slide_text.text.strip()
HasText(slide_text) == Strip(slide_text.text) /= <<>>

\* A count of human slides that is the count of all slides.
HumanSlidesAll(total, ai) == total

\* human_slides=len(slides_text) - ai_count
HumanSlides(total, ai) == total - ai

\* file.read() and validate_pptx_file(...): the request arrives and a
\* ValidationError becomes a 400.
ValidateUpload(req) ==
  /\ hpc = "idle"
  /\ request' = req
  /\ trace' = Append(trace, Event("validate", NoneLen))
  /\ IF ValidatePptxFileRaises(FilenameOr(req.filename, UnknownPptx), req.size)
     THEN LET e == ValidatePptxFileError(FilenameOr(req.filename, UnknownPptx), req.size)
          IN response' = ExceptClause(e) /\ caught' = e /\ hpc' = "finally"
     ELSE response' = response /\ caught' = caught /\ hpc' = "save"
  /\ UNCHANGED <<temp_input, temp_output, tempdir, slide_idx, slide_detections,
                 ai_count, output_doc, docVars, detVars>>
  /\ UNCHANGED <<genVars, probeVars>>

\* save_uploaded_file(file_content, ...): the upload is written to a new
\* file of the temporary directory.
SaveUploadedFile ==
  /\ hpc = "save"
  /\ temp_input' = UploadName
  /\ tempdir' = tempdir \cup {UploadName}
  /\ file' = request.doc
  /\ hpc' = IF request.kind = "modify" THEN "open" ELSE "extract"
  /\ trace' = Append(trace, Event("save_upload", NoneLen))
  /\ UNCHANGED <<request, temp_output, slide_idx, slide_detections, ai_count,
                 output_doc, response, caught, presentation, pc, replacements, idx,
                 log, styleLog, results, detVars>>
  /\ UNCHANGED <<genVars, probeVars>>

\* modifier = PPTModifier(temp_input): the saved upload is parsed; a file
\* that is no presentation raises, which becomes a 500.
OpenModifier ==
  /\ hpc = "open"
  /\ trace' = Append(trace, Event("open", NoneLen))
  /\ IF request.parses
     THEN /\ presentation' = file
          /\ hpc' = IF request.replace_ai_content THEN "extract" ELSE "styles"
          /\ response' = response
          /\ caught' = caught
     ELSE /\ presentation' = presentation
          /\ hpc' = "finally"
          /\ response' = ExceptClause(PackageNotFound)
          /\ caught' = PackageNotFound
  /\ UNCHANGED <<request, temp_input, temp_output, tempdir, slide_idx,
                 slide_detections, ai_count, output_doc, file, pc, replacements,
                 idx, log, styleLog, results, detVars>>
  /\ UNCHANGED <<genVars, probeVars>>

\* slides_text = analyzer.extract_text_from_pptx(...)
ExtractSlides ==
  /\ hpc = "extract"
  /\ trace' = Append(trace, Event("extract", NoneLen))
  /\ LET res == IF request.parses THEN ExtractTextFromPptx(file)
                ELSE [status |-> "raised", slides |-> <<>>]
         e == IF request.parses THEN NoTableInFrame ELSE PackageNotFound
     IN /\ results' = res
        /\ IF res.status = "raised"
           THEN hpc' = "finally" /\ response' = ExceptClause(e) /\ caught' = e
           ELSE hpc' = "get_detector" /\ response' = response /\ caught' = caught
  /\ UNCHANGED <<request, temp_input, temp_output, tempdir, slide_idx,
                 slide_detections, ai_count, output_doc, file, presentation, pc,
                 replacements, idx, log, styleLog, detVars>>
  /\ UNCHANGED <<genVars, probeVars>>

\* detector = get_detector(): run by the handler without a suspension point,
\* it loads the default model if no detector is there yet.
HandlerGetDetector ==
  /\ hpc = "get_detector"
  /\ IF detector_instance = NoInstance
     THEN /\ loads' = Append(loads, [model_name |-> EffectiveModelName(NoneS)])
          /\ detector_instance' = Len(loads) + 1
          /\ assigned' = Append(assigned, Len(loads) + 1)
     ELSE UNCHANGED <<loads, detector_instance, assigned>>
  /\ hpc' = "loop"
  /\ slide_idx' = 1
  /\ trace' = Append(trace, Event("get_detector", NoneLen))
  /\ UNCHANGED <<request, temp_input, temp_output, tempdir, slide_detections,
                 ai_count, output_doc, response, caught, thread, calls, detections,
                 docVars>>
  /\ UNCHANGED <<genVars, probeVars>>

\* get_detector() raises because the model cannot be loaded: a 500.
HandlerGetDetectorRaises ==
  /\ hpc = "get_detector"
  /\ detector_instance = NoInstance
  /\ hpc' = "finally"
  /\ response' = ExceptClause(ModelLoadFailed)
  /\ caught' = ModelLoadFailed
  /\ trace' = Append(trace, Event("get_detector", NoneLen))
  /\ UNCHANGED <<request, temp_input, temp_output, tempdir, slide_idx,
                 slide_detections, ai_count, output_doc, docVars, detVars>>
  /\ UNCHANGED <<genVars, probeVars>>

\* detect_pptx, loop body for a slide with text: detector.detect is called
\* and its result appended.
DetectPptxSlide(ai_probability) ==
  /\ InLoop
  /\ request.kind = "detect"
  /\ HasText(CurrentSlide)
  /\ LET d == DetectOn(loads[detector_instance].model_name, CurrentSlide.text,
                       ai_probability)
     IN /\ detections' = Append(detections, d)
        /\ slide_detections' =
             Append(slide_detections,
                    [slide_number |-> CurrentSlide.slide_number,
                     text |-> CurrentSlide.text,
                     detection |-> DetectionResultOf(d)])
        /\ ai_count' = IF d.is_ai_generated THEN ai_count + 1 ELSE ai_count
  /\ trace' = Append(trace, Event("detect", CurrentSlide.slide_number))
  /\ slide_idx' = slide_idx + 1
  /\ UNCHANGED <<request, hpc, temp_input, temp_output, tempdir, output_doc,
                 response, caught, detector_instance, loads, assigned, thread,
                 calls, docVars>>
  /\ UNCHANGED <<genVars, probeVars>>

\* detect_pptx, loop body for a slide without text: a fixed result.
DetectPptxBlankSlide ==
  /\ InLoop
  /\ request.kind = "detect"
  /\ ~HasText(CurrentSlide)
  /\ slide_detections' =
       Append(slide_detections,
              [slide_number |-> CurrentSlide.slide_number,
               text |-> <<>>,
               detection |-> [is_ai_generated |-> FALSE, confidence |-> 0,
                              label |-> "Human",
                              model_name |-> loads[detector_instance].model_name]])
  /\ slide_idx' = slide_idx + 1
  /\ UNCHANGED <<request, hpc, temp_input, temp_output, tempdir, ai_count,
                 output_doc, response, caught, trace, docVars, detVars>>
  /\ UNCHANGED <<genVars, probeVars>>

\* detect_pptx after the loop: the PresentationDetection is returned.
DetectPptxRespond ==
  /\ hpc = "loop"
  /\ request.kind = "detect"
  /\ slide_idx > Len(results.slides)
  /\ response' = [status |-> 200,
                  body |-> [total_slides |-> Len(results.slides),
                            ai_slides |-> ai_count,
                            human_slides |-> HumanSlides(Len(results.slides), ai_count),
                            slides |-> slide_detections],
                  path |-> NoneS, detail |-> NoneS, error_type |-> NoneS]
  /\ hpc' = "finally"
  /\ trace' = Append(trace, Event("respond", NoneLen))
  /\ UNCHANGED <<request, temp_input, temp_output, tempdir, slide_idx,
                 slide_detections, ai_count, output_doc, caught, docVars, detVars>>
  /\ UNCHANGED <<genVars, probeVars>>

\* A replacement loop that takes any slide the detector calls AI.
WantsReplacementAnyAi(detection, confidence_threshold) ==
  detection.is_ai_generated

\* The threshold alone decides, whatever the label.
WantsReplacementByThresholdOnly(detection, confidence_threshold) ==
  detection.confidence >= confidence_threshold

\* if detection.is_ai_generated and detection.confidence >= confidence_threshold
WantsReplacement(detection, confidence_threshold) ==
  detection.is_ai_generated /\ detection.confidence >= confidence_threshold

\* A Replacement whose old_text is the first character of the slide text.
ReplacementOfFirstCharacter(slide_text) ==
  [slide_num |-> slide_text.slide_number,
   old_text |-> SubSeq(slide_text.text, 1, 1),
   new_text |-> Generate(slide_text.text)]

\* new_text = generator.generate(slide_text.text); Replacement(slide_num=
\* slide_text.slide_number, old_text=slide_text.text, new_text=new_text)
ReplacementOf(slide_text) ==
  [slide_num |-> slide_text.slide_number,
   old_text |-> slide_text.text,
   new_text |-> Generate(slide_text.text)]

\* modify_pptx, loop body for a slide with text: detector.detect is called;
\* for a slide to replace, generator.generate is called and a Replacement of
\* the whole slide text is appended.
ModifyPptxSlide(ai_probability) ==
  /\ InLoop
  /\ request.kind = "modify"
  /\ HasText(CurrentSlide)
  /\ LET d == DetectOn(loads[detector_instance].model_name, CurrentSlide.text,
                       ai_probability)
         n == CurrentSlide.slide_number
     IN /\ detections' = Append(detections, d)
        /\ IF WantsReplacement(d, request.confidence_threshold)
           THEN /\ replacements' = Append(replacements, ReplacementOf(CurrentSlide))
                /\ trace' = trace \o <<Event("detect", n), Event("generate", n)>>
           ELSE /\ replacements' = replacements
                /\ trace' = Append(trace, Event("detect", n))
  /\ slide_idx' = slide_idx + 1
  /\ UNCHANGED <<request, hpc, temp_input, temp_output, tempdir, slide_detections,
                 ai_count, output_doc, response, caught, detector_instance, loads,
                 assigned, thread, calls, file, presentation, pc, idx, log,
                 styleLog, results>>
  /\ UNCHANGED <<genVars, probeVars>>

\* modify_pptx, loop body for a slide without text: continue.
ModifyPptxBlankSlide ==
  /\ InLoop
  /\ request.kind = "modify"
  /\ ~HasText(CurrentSlide)
  /\ slide_idx' = slide_idx + 1
  /\ UNCHANGED <<request, hpc, temp_input, temp_output, tempdir, slide_detections,
                 ai_count, output_doc, response, caught, trace, docVars, detVars>>
  /\ UNCHANGED <<genVars, probeVars>>

\* replace_content(replacements) as a whole: each entry in turn, on what the
\* ones before left; an entry that raises keeps what it had changed.
RECURSIVE ReplaceContentOn(_, _)
ReplaceContentOn(doc, rs) ==
  IF rs = <<>> THEN doc
  ELSE ReplaceContentOn(
         ReplaceInSlide(doc, rs[1].slide_num, rs[1].old_text, rs[1].new_text).doc,
         Tail(rs))

\* modify_pptx after the loop: if replacements: modifier.replace_content(...)
ApplyReplacements ==
  /\ hpc = "loop"
  /\ request.kind = "modify"
  /\ slide_idx > Len(results.slides)
  /\ IF replacements /= <<>>
     THEN /\ presentation' = ReplaceContentOn(presentation, replacements)
          /\ trace' = Append(trace, Event("replace_content", NoneLen))
     ELSE UNCHANGED <<presentation, trace>>
  /\ hpc' = "styles"
  /\ UNCHANGED <<request, temp_input, temp_output, tempdir, slide_idx,
                 slide_detections, ai_count, output_doc, response, caught, file, pc,
                 replacements, idx, log, styleLog, results, detVars>>
  /\ UNCHANGED <<genVars, probeVars>>

\* StyleConfig(font_name=font_name, color_scheme=color_scheme), color_scheme
\* being None unless text_color is truthy.
RequestStyle(req) == MkStyle(req.font_name, NoneLen, req.text_color)

\* if font_name or text_color
StyleRequested(req) == WantsName(RequestStyle(req)) \/ WantsColor(RequestStyle(req))

\* The exception that leaves modify_styles: that of the first shape, in loop
\* order, whose iteration raises (the colour of a run, or a chart frame's
\* table).
StylesError(slides, cfg) ==
  LET raising == {ix \in ShapeIxs(slides) :
                    ApplyStylesToShape(slides[ix[1]][ix[2]], cfg).raised}
      first == CHOOSE ix \in raising : \A r \in raising : r = ix \/ Before(ix, r)
  IN IF HasTextFrame(slides[first[1]][first[2]]) THEN BadHexColor ELSE NoTableInFrame

\* modify_pptx, step 2: modifier.modify_styles(style_config) if a style field
\* is given; an exception in it becomes a 500.
ApplyStyles ==
  /\ hpc = "styles"
  /\ IF StyleRequested(request)
     THEN LET res == ModifyStylesOn(presentation, RequestStyle(request))
          IN /\ presentation' = res.doc
             /\ styleLog' = Append(styleLog,
                                   [cfg |-> RequestStyle(request), before |-> presentation,
                                    after |-> res.doc, raised |-> res.raised])
             /\ trace' = Append(trace, Event("modify_styles", NoneLen))
             /\ IF res.raised
                THEN /\ hpc' = "finally"
                     /\ response' = ExceptClause(StylesError(presentation, RequestStyle(request)))
                     /\ caught' = StylesError(presentation, RequestStyle(request))
                ELSE hpc' = "save_output" /\ response' = response /\ caught' = caught
     ELSE /\ hpc' = "save_output"
          /\ UNCHANGED <<presentation, styleLog, trace, response, caught>>
  /\ UNCHANGED <<request, temp_input, temp_output, tempdir, slide_idx,
                 slide_detections, ai_count, output_doc, file, pc, replacements,
                 idx, log, results, detVars>>
  /\ UNCHANGED <<genVars, probeVars>>

\* modify_pptx, step 3: the presentation is saved to a new temporary file and
\* a FileResponse on that file is returned.  The write goes to the path
\* generated, whatever is stored there.
SaveOutput ==
  /\ hpc = "save_output"
  /\ temp_output' = OutputName
  /\ tempdir' = tempdir \cup {OutputName}
  /\ output_doc' = presentation
  /\ file' = IF OutputName = temp_input THEN presentation ELSE file
  /\ response' = [status |-> 200, body |-> NoBody, path |-> OutputName,
                  detail |-> NoneS, error_type |-> NoneS]
  /\ hpc' = "finally"
  /\ trace' = trace \o <<Event("save_output", NoneLen), Event("respond", NoneLen)>>
  /\ UNCHANGED <<request, temp_input, slide_idx, slide_detections, ai_count,
                 caught, presentation, pc, replacements, idx, log, styleLog,
                 results, detVars>>
  /\ UNCHANGED <<genVars, probeVars>>

\* modify_pptx, step 3, when presentation.save raises: the file at the path
\* generated is either not there or cut short (nothing can be read back from
\* it); save logs and raises again, and the handler answers with a 500.
SaveOutputRaises(created) ==
  /\ hpc = "save_output"
  /\ temp_output' = OutputName
  /\ tempdir' = IF created THEN tempdir \cup {OutputName} ELSE tempdir
  /\ output_doc' = <<>>
  /\ file' = IF created /\ OutputName = temp_input THEN <<>> ELSE file
  /\ response' = ExceptClause(SaveFailed)
  /\ caught' = SaveFailed
  /\ hpc' = "finally"
  /\ trace' = Append(trace, Event("save_output", NoneLen))
  /\ UNCHANGED <<request, temp_input, slide_idx, slide_detections, ai_count,
                 presentation, pc, replacements, idx, log, styleLog, results,
                 detVars>>
  /\ UNCHANGED <<genVars, probeVars>>

\* The answer the framework gives for a body that fails the request schema.
RequestValidationResponse ==
  [status |-> 422, body |-> NoBody, path |-> NoneS,
   detail |-> "String should have at least 10 characters", error_type |-> NoneS]

\* detect_text: the request arrives; the framework tests it against
\* TextDetectionRequest and, if it passes, the handler runs
\* validate_text_input(request.text).
ValidateText(req) ==
  /\ hpc = "idle"
  /\ request' = req
  /\ IF Len(req.text) < TextFieldMinLength
     THEN /\ response' = RequestValidationResponse
          /\ caught' = caught
          /\ trace' = trace
          /\ hpc' = "done"
     ELSE /\ trace' = Append(trace, Event("validate", NoneLen))
          /\ IF ValidateTextInputError(req.text) /= NoExc
             THEN /\ response' = ExceptClause(ValidateTextInputError(req.text))
                  /\ caught' = ValidateTextInputError(req.text)
                  /\ hpc' = "done"
             ELSE /\ response' = response
                  /\ caught' = caught
                  /\ hpc' = "text_get_detector"
  /\ UNCHANGED <<temp_input, temp_output, tempdir, slide_idx, slide_detections,
                 ai_count, output_doc, docVars, detVars>>
  /\ UNCHANGED <<genVars, probeVars>>

\* detect_text: detector = get_detector(request.model), run by the handler
\* without a suspension point.
DetectTextGetDetector ==
  /\ hpc = "text_get_detector"
  /\ IF detector_instance = NoInstance
     THEN /\ loads' = Append(loads, [model_name |-> EffectiveModelName(request.model)])
          /\ detector_instance' = Len(loads) + 1
          /\ assigned' = Append(assigned, Len(loads) + 1)
     ELSE UNCHANGED <<loads, detector_instance, assigned>>
  /\ hpc' = "text_detect"
  /\ trace' = Append(trace, Event("get_detector", NoneLen))
  /\ UNCHANGED <<request, temp_input, temp_output, tempdir, slide_idx,
                 slide_detections, ai_count, output_doc, response, caught, thread,
                 calls, detections, docVars>>
  /\ UNCHANGED <<genVars, probeVars>>

\* detect_text: get_detector(request.model) raises because the model cannot
\* be loaded: a 500.
DetectTextGetDetectorRaises ==
  /\ hpc = "text_get_detector"
  /\ detector_instance = NoInstance
  /\ hpc' = "done"
  /\ response' = ExceptClause(ModelLoadFailed)
  /\ caught' = ModelLoadFailed
  /\ trace' = Append(trace, Event("get_detector", NoneLen))
  /\ UNCHANGED <<request, temp_input, temp_output, tempdir, slide_idx,
                 slide_detections, ai_count, output_doc, docVars, detVars>>
  /\ UNCHANGED <<genVars, probeVars>>

\* detect_text: result = detector.detect(request.text); return result
DetectTextRespond(ai_probability) ==
  /\ hpc = "text_detect"
  /\ LET d == DetectOn(loads[detector_instance].model_name, request.text,
                       ai_probability)
     IN /\ detections' = Append(detections, d)
        /\ response' = [status |-> 200, body |-> DetectionResultOf(d), path |-> NoneS,
                        detail |-> NoneS, error_type |-> NoneS]
  /\ hpc' = "done"
  /\ trace' = trace \o <<Event("detect", NoneLen), Event("respond", NoneLen)>>
  /\ UNCHANGED <<request, temp_input, temp_output, tempdir, slide_idx,
                 slide_detections, ai_count, output_doc, caught, detector_instance,
                 loads, assigned, thread, calls, docVars>>
  /\ UNCHANGED <<genVars, probeVars>>

\* The finally clause of both handlers: if temp_input: cleanup_file(temp_input)
\* (temp_path in detect_pptx).
\* A cleanup that removes the output as well as the saved upload.
FilesToCleanUpBoth == {temp_input, temp_output} \ {NoneS}

FilesToCleanUp == {temp_input} \ {NoneS}

\* The finally clause runs and the handler is left.
Finally ==
  /\ hpc = "finally"
  /\ tempdir' = tempdir \ FilesToCleanUp
  /\ trace' = IF FilesToCleanUp /= {} THEN Append(trace, Event("cleanup", NoneLen))
              ELSE trace
  /\ hpc' = "done"
  /\ UNCHANGED <<request, temp_input, temp_output, slide_idx, slide_detections,
                 ai_count, output_doc, response, caught, docVars, detVars>>
  /\ UNCHANGED <<genVars, probeVars>>

\* One request to /detect/text, /detect/pptx or /modify/pptx, from its
\* arrival to the end of its handler.
NextApi ==
  \/ hpc = "idle" /\ \E req \in Requests : ValidateUpload(req)
  \/ hpc = "idle" /\ \E req \in TextRequests : ValidateText(req)
  \/ DetectTextGetDetector
  \/ DetectTextGetDetectorRaises
  \/ \E p \in SlideOutputs : DetectTextRespond(p)
  \/ SaveUploadedFile
  \/ OpenModifier
  \/ ExtractSlides
  \/ HandlerGetDetector
  \/ HandlerGetDetectorRaises
  \/ \E p \in SlideOutputs : DetectPptxSlide(p)
  \/ DetectPptxBlankSlide
  \/ DetectPptxRespond
  \/ \E p \in SlideOutputs : ModifyPptxSlide(p)
  \/ ModifyPptxBlankSlide
  \/ ApplyReplacements
  \/ ApplyStyles
  \/ SaveOutput
  \/ \E created \in BOOLEAN : SaveOutputRaises(created)
  \/ Finally

\* A process that has not loaded the detector yet, or has for an earlier
\* request.
InitApi ==
  /\ DocsOn({<<>>})
  /\ loads \in {<<>>, <<[model_name |-> ModelDefault]>>}
  /\ detector_instance = Len(loads)
  /\ assigned = [k \in DOMAIN loads |-> k]
  /\ thread = [t \in 1..MaxCallers |-> ThreadIdle]
  /\ calls = <<>>
  /\ detections = <<>>
  /\ HandlerIdle
  /\ GeneratorIdle
  /\ ProbeIdle

SpecApi == InitApi /\ [][NextApi]_vars

\* ------------------------------------------------------------ health probe
ApiVersion == "0.1.0"

\* health_check: models_ok is True unless the import of get_detector
\* raises; get_detector itself is not called, so no model is loaded.
HealthCheckResponse(imports) ==
  LET models_ok == imports
      status_val == IF models_ok THEN "healthy" ELSE "degraded"
  IN [status |-> status_val, version |-> ApiVersion, models_loaded |-> models_ok]

\* GET /api/health
HealthCheck ==
  /\ health' = HealthCheckResponse(import_ok)
  /\ UNCHANGED <<import_ok, docVars, detVars, reqVars, genVars>>

\* A deployment whose classifier cannot be loaded: every AIDetector(...)
\* raises, so get_detector never has an instance to give; the probe is asked
\* before, between and after the calls. Where torch or transformers are
\* missing the detector module cannot be imported, and nothing calls
\* get_detector.
NextHealth ==
  \/ HealthCheck
  \/ import_ok /\ \E t \in 1..MaxCallers : \E m \in ModelArgs : GetDetector(t, m)
  \/ \E t \in 1..MaxCallers : CheckInstance(t)
  \/ \E t \in 1..MaxCallers : ConstructRaises(t)

InitHealth ==
  /\ DocsOn({<<>>})
  /\ DetectorUnset
  /\ HandlerIdle
  /\ GeneratorIdle
  /\ import_ok \in BOOLEAN
  /\ health = NoHealth

SpecHealth == InitHealth /\ [][NextHealth]_vars

\* ------------------------------------------------- vocabulary of the claims
\* The runs of a slide that lie in a top-level text shape or in a cell of a
\* top-level table, as <<shape, cell (0 for a text shape), paragraph, run>>.
ScanIxs(shapes) ==
  UNION {IF shapes[j].kind = "text"
         THEN {<<j, 0, ix[1], ix[2]>> : ix \in FrameRunIxs(shapes[j].tf)}
         ELSE IF shapes[j].kind = "table"
         THEN UNION {{<<j, c, ix[1], ix[2]>> : ix \in FrameRunIxs(shapes[j].cells[c])} :
                       c \in DOMAIN shapes[j].cells}
         ELSE {} : j \in DOMAIN shapes}

RunAt(shapes, ix) ==
  IF ix[2] = 0 THEN shapes[ix[1]].tf[ix[3]][ix[4]]
  ELSE shapes[ix[1]].cells[ix[2]][ix[3]][ix[4]]

\* x comes before y in the order shapes, cells, paragraphs, runs.
Earlier(x, y) ==
  \E m \in 1..4 : x[m] < y[m] /\ \A h \in 1..(m - 1) : x[h] = y[h]

\* The texts of all the runs of a shape, grouped shapes included.
RECURSIVE ShapeRunTexts(_)
ShapeRunTexts(shape) ==
  {shape.tf[ix[1]][ix[2]].text : ix \in FrameRunIxs(shape.tf)}
  \cup UNION {{shape.cells[c][ix[1]][ix[2]].text : ix \in FrameRunIxs(shape.cells[c])} :
                c \in DOMAIN shape.cells}
  \cup UNION {ShapeRunTexts(shape.subs[j]) : j \in DOMAIN shape.subs}

SlideRunTexts(shapes) == UNION {ShapeRunTexts(shapes[j]) : j \in DOMAIN shapes}

\* The log entries whose replacement names a slide of the presentation.
InRange(e) == e.replacement.slide_num < Len(e.before)
SlideBefore(e) == e.before[e.replacement.slide_num + 1]
SlideAfter(e) == e.after[e.replacement.slide_num + 1]

\* The explicitly set RGB colour of a font, if it has one.
ExplicitRgb(font) == IF font.ctype = 1 THEN font.rgb ELSE NoneT

\* r is t with every occurrence of old (leftmost first, not overlapping)
\* replaced by new and every other character kept, stated by positions.
IsSubstitution(t, old, new, r) ==
  IF old = <<>>
  THEN r = Concat([i \in 1..Len(t) |-> new \o <<t[i]>>]) \o new
  ELSE LET L == Len(old)
           M == {i \in 1..(Len(t) - L + 1) : SubSeq(t, i, i + L - 1) = old}
           covered(S, i) == \E q \in S : q < i /\ i < q + L
       IN \E S \in SUBSET M :
            /\ \A q \in S : ~covered(S, q)
            /\ \A q \in M \ S : covered(S, q)
            /\ r = Concat([i \in 1..Len(t) |->
                             IF i \in S THEN new
                             ELSE IF covered(S, i) THEN <<>> ELSE <<t[i]>>])

\* The replacement of log entry e went over its target slide: the slide has
\* the same runs as before; every run of a top-level text shape or table
\* cell that precedes the first chart frame and whose text contains old_text
\* has a changed text; every other run of those shapes is as it was.
AppliedToSlide(e) ==
  /\ ScanIxs(SlideAfter(e)) = ScanIxs(SlideBefore(e))
  /\ \A x \in ScanIxs(SlideBefore(e)) :
       LET reached == \A j \in 1..x[1] : SlideBefore(e)[j].kind /= "chart"
           b == RunAt(SlideBefore(e), x)
           a == RunAt(SlideAfter(e), x)
       IN IF reached /\ Contains(e.replacement.old_text, b.text)
          THEN a.text /= b.text
          ELSE a = b

\* ------------------------------------------------------------------ claims
\* C1 (as stated): for each Replacement only the first run of the target
\* slide that contains old_text is modified; a later run of that slide that
\* also contains old_text is left unchanged.
C1_OnlyFirstRunModified ==
  \A n \in DOMAIN log :
    InRange(log[n]) =>
      \A x, y \in ScanIxs(SlideBefore(log[n])) :
        ( /\ Earlier(x, y)
          /\ Contains(log[n].replacement.old_text, RunAt(SlideBefore(log[n]), x).text)
          /\ Contains(log[n].replacement.old_text, RunAt(SlideBefore(log[n]), y).text) )
        => RunAt(SlideAfter(log[n]), y) = RunAt(SlideBefore(log[n]), y)

\* C1 (amended): for each Replacement every run the scan of the target slide
\* reaches (the runs of top-level text shapes and of table cells, in order,
\* before the first shape whose table access raises) whose text contains
\* old_text has its text changed, not only the first such run; a reached run
\* that does not contain old_text, and every run that is not reached, is
\* left unchanged.
C1_EveryMatchingRunModified ==
  \A n \in DOMAIN log : InRange(log[n]) => AppliedToSlide(log[n])

\* Witness of C1: a replacement found two runs of one slide containing
\* old_text and changed the text of both.
C1_Witness ==
  \E n \in DOMAIN log :
    /\ InRange(log[n])
    /\ \E x, y \in ScanIxs(SlideBefore(log[n])) :
         /\ Earlier(x, y)
         /\ Contains(log[n].replacement.old_text, RunAt(SlideBefore(log[n]), x).text)
         /\ Contains(log[n].replacement.old_text, RunAt(SlideBefore(log[n]), y).text)
         /\ RunAt(SlideAfter(log[n]), x).text /= RunAt(SlideBefore(log[n]), x).text
         /\ RunAt(SlideAfter(log[n]), y).text /= RunAt(SlideBefore(log[n]), y).text

\* C2: a run whose text a replacement changed has the same font name, size,
\* bold flag, italic flag and explicitly set RGB colour after it as before.
C2_FormattingPreserved ==
  \A n \in DOMAIN log :
    InRange(log[n]) =>
      \A x \in ScanIxs(SlideBefore(log[n])) :
        LET b == RunAt(SlideBefore(log[n]), x)
            a == RunAt(SlideAfter(log[n]), x)
        IN a.text /= b.text =>
             /\ a.font.name = b.font.name
             /\ a.font.size = b.font.size
             /\ a.font.bold = b.font.bold
             /\ a.font.italic = b.font.italic
             /\ ExplicitRgb(a.font) = ExplicitRgb(b.font)

\* Witness of C2: the text of a run with an explicit name, size, bold and
\* italic flag and RGB colour was changed.
C2_Witness ==
  \E n \in DOMAIN log :
    /\ InRange(log[n])
    /\ \E x \in ScanIxs(SlideBefore(log[n])) :
         /\ RunAt(SlideBefore(log[n]), x).font = FontExplicit
         /\ RunAt(SlideAfter(log[n]), x).text /= RunAt(SlideBefore(log[n]), x).text

\* C3: a Replacement whose slide_num is not below the number of slides
\* raises nothing and leaves the whole presentation as it was.
C3_OutOfRangeNoOp ==
  /\ pc /= "raised"
  /\ \A n \in DOMAIN log :
       ~InRange(log[n]) => ~log[n].raised /\ log[n].after = log[n].before

\* Witness of C3: a replacement aimed one past the last slide of a
\* presentation that has slides was processed.
C3_Witness ==
  \E n \in DOMAIN log :
    /\ log[n].replacement.slide_num = Len(log[n].before)
    /\ Len(log[n].before) > 0

\* C4: replace_content attempts every Replacement of its list in list
\* order; an exception raised by one is caught, replace_content does not
\* raise, and the later Replacements are still applied.
C4_AllReplacementsAttempted ==
  /\ pc /= "raised"
  /\ pc \in {"replacing", "replaced"} => Len(log) = idx - 1
  /\ pc = "replaced" => Len(log) = Len(replacements)
  /\ \A n \in DOMAIN log :
       /\ n <= Len(replacements)
       /\ log[n].replacement = replacements[n]
       /\ log[n].before = (IF n = 1 THEN file ELSE log[n - 1].after)
       /\ ((\E m \in 1..(n - 1) : log[m].raised) /\ InRange(log[n]))
            => AppliedToSlide(log[n])

\* Witness of C4: replace_content returned after its first Replacement
\* raised and its second one changed the presentation.
C4_Witness ==
  /\ pc = "replaced"
  /\ Len(log) = 2
  /\ log[1].raised
  /\ log[2].after /= log[2].before

\* C5: a Replacement whose old_text is in no single run of the target slide
\* leaves the slide as it was.
C5_NoMatchNoOp ==
  \A n \in DOMAIN log :
    ( /\ InRange(log[n])
      /\ \A t \in SlideRunTexts(SlideBefore(log[n])) :
           ~Contains(log[n].replacement.old_text, t) )
    => SlideAfter(log[n]) = SlideBefore(log[n])

\* Witness of C5: old_text is in no run of the target slide but spans two
\* runs of one of its paragraphs.
C5_Witness ==
  \E n \in DOMAIN log :
    /\ InRange(log[n])
    /\ \A t \in SlideRunTexts(SlideBefore(log[n])) :
         ~Contains(log[n].replacement.old_text, t)
    /\ \E j \in DOMAIN SlideBefore(log[n]) :
         \E p \in DOMAIN SlideBefore(log[n])[j].tf :
           Contains(log[n].replacement.old_text,
                    ParagraphText(SlideBefore(log[n])[j].tf[p]))

\* C6: in a run a replacement modifies, every occurrence of old_text is
\* replaced by new_text and every other character stays as it was.
C6_AllOccurrencesReplaced ==
  \A n \in DOMAIN log :
    InRange(log[n]) =>
      \A x \in ScanIxs(SlideBefore(log[n])) :
        LET b == RunAt(SlideBefore(log[n]), x)
            a == RunAt(SlideAfter(log[n]), x)
        IN a /= b =>
             IsSubstitution(b.text, log[n].replacement.old_text,
                            log[n].replacement.new_text, a.text)

\* Witness of C6: a run with two occurrences of old_text around another
\* character was modified.
C6_Witness ==
  \E n \in DOMAIN log :
    /\ InRange(log[n])
    /\ log[n].replacement.old_text = ta
    /\ \E x \in ScanIxs(SlideBefore(log[n])) :
         /\ RunAt(SlideBefore(log[n]), x).text = taba
         /\ RunAt(SlideAfter(log[n]), x) /= RunAt(SlideBefore(log[n]), x)

\* All the runs of a shape in document order, grouped shapes included.
RECURSIVE ShapeRuns(_)
ShapeRuns(shape) ==
  Concat([p \in DOMAIN shape.tf |-> shape.tf[p]])
  \o Concat([c \in DOMAIN shape.cells |->
               Concat([p \in DOMAIN shape.cells[c] |-> shape.cells[c][p]])])
  \o Concat([j \in DOMAIN shape.subs |-> ShapeRuns(shape.subs[j])])

\* All the runs of a presentation in document order.
AllRuns(slides) ==
  Concat([i \in DOMAIN slides |->
            Concat([j \in DOMAIN slides[i] |-> ShapeRuns(slides[i][j])])])

\* C7 (as stated): after modify_styles(cfg) has returned, every run of every
\* text-bearing shape and table cell of every slide has each field given in
\* cfg (a non-empty font name, a font size, a text colour that parses) set
\* to cfg's value, and keeps its own value for each field cfg leaves out.
C7_EveryRunStyled ==
  \A n \in DOMAIN styleLog :
    LET e == styleLog[n]
        b == AllRuns(e.before)
        a == AllRuns(e.after)
    IN ~e.raised =>
         /\ Len(a) = Len(b)
         /\ \A k \in DOMAIN b :
              /\ a[k].text = b[k].text
              /\ a[k].font.name =
                   (IF e.cfg.font_name \in {NoneS, ""} THEN b[k].font.name
                    ELSE e.cfg.font_name)
              /\ a[k].font.size =
                   (IF e.cfg.font_size = NoneLen THEN b[k].font.size
                    ELSE e.cfg.font_size * 12700)
              /\ (e.cfg.text_color \in {NoneT, <<>>} => a[k].font = [b[k].font EXCEPT
                     !.name = a[k].font.name, !.size = a[k].font.size])
              /\ (e.cfg.text_color = HexOrange => ExplicitRgb(a[k].font) = <<255, 128, 0>>)
              /\ (e.cfg.text_color = HexNoHash => ExplicitRgb(a[k].font) = <<10, 11, 12>>)
              /\ (e.cfg.text_color = HexFive => ExplicitRgb(a[k].font) = <<18, 52, 5>>)

\* C8: modify_styles called again with the same StyleConfig leaves the
\* presentation as the first call left it.
C8_StyleIdempotent ==
  \A n \in DOMAIN styleLog :
    (n > 1 /\ styleLog[n].cfg = styleLog[n - 1].cfg) =>
      /\ styleLog[n].before = styleLog[n - 1].after
      /\ styleLog[n].after = styleLog[n - 1].after
      /\ styleLog[n].raised = styleLog[n - 1].raised

\* Witness of C8: a StyleConfig with a name, a size and a colour was applied
\* twice in a row, and the first call changed the presentation.
C8_Witness ==
  /\ Len(styleLog) >= 2
  /\ styleLog[2].cfg = styleLog[1].cfg
  /\ styleLog[1].cfg = MkStyle("Calibri", 18, HexNoHash)
  /\ styleLog[1].after /= styleLog[1].before
  /\ \E k \in DOMAIN AllRuns(styleLog[1].before) :
       AllRuns(styleLog[1].before)[k].font.size /= NoneLen

\* C9: reading a file of N slides gives exactly N SlideText entries whose
\* slide_number values are 0..N-1 in slide order.
C9_OneEntryPerSlide ==
  results.status = "ok" =>
    /\ Len(results.slides) = Len(file)
    /\ \A i \in DOMAIN results.slides : results.slides[i].slide_number = i - 1

\* Witness of C9: a file of two different slides was read.
C9_Witness ==
  /\ results.status = "ok"
  /\ Len(file) >= 2
  /\ file[1] /= file[2]

\* The extractable texts of a shape, in order: its trimmed non-empty
\* paragraphs, its trimmed non-empty table cells, and those of the shapes
\* grouped in it.
RECURSIVE ShapeAtoms(_)
ShapeAtoms(shape) ==
  LET ps == [p \in DOMAIN shape.tf |-> Strip(ParagraphText(shape.tf[p]))]
      cs == [c \in DOMAIN shape.cells |-> Strip(CellText(shape.cells[c]))]
  IN SelectSeq(ps, LAMBDA t : t /= <<>>)
     \o SelectSeq(cs, LAMBDA t : t /= <<>>)
     \o Concat([j \in DOMAIN shape.subs |-> ShapeAtoms(shape.subs[j])])

\* C10: a slide's text is the single-space join, in shape order, of the
\* extractable texts of its shapes; a shape without extractable text adds
\* nothing, not even a separator, and a slide without any gives "".
C10_SlideTextIsJoin ==
  results.status = "ok" =>
    \A i \in DOMAIN results.slides :
      LET atoms == Concat([j \in DOMAIN file[i] |-> ShapeAtoms(file[i][j])])
          text == results.slides[i].text
      IN /\ Len(text) = (IF atoms = <<>> THEN 0
                          ELSE Len(Concat(atoms)) + Len(atoms) - 1)
         /\ text = Join(atoms, <<" ">>)
         /\ ((\A j \in DOMAIN file[i] : ShapeAtoms(file[i][j]) = <<>>) => text = <<>>)

\* Witness of C10: a read file has a slide with a shape without text between
\* two shapes with text, and a slide of shapes that all lack text.
C10_Witness ==
  /\ results.status = "ok"
  /\ \E i \in DOMAIN file :
       \E j \in DOMAIN file[i] :
         /\ ShapeAtoms(file[i][j]) = <<>>
         /\ \E h \in 1..(j - 1) : ShapeAtoms(file[i][h]) /= <<>>
         /\ \E h \in (j + 1)..Len(file[i]) : ShapeAtoms(file[i][h]) /= <<>>
  /\ \E i \in DOMAIN file :
       /\ file[i] /= <<>>
       /\ results.slides[i].text = <<>>

\* Part of the shape, or of a shape grouped in it, failed to parse while it
\* was read and the failure did not leave the reader.
RECURSIVE ParseFailureSwallowed(_)
ParseFailureSwallowed(shape) ==
  \/ TableTextFails(shape)
  \/ HasShapes(shape) /\ \E j \in DOMAIN shape.subs : ParseFailureSwallowed(shape.subs[j])

\* C11: a parse error met while reading a document aborts the whole read:
\* extract_text_from_pptx returns a result only for a file no part of which
\* failed to parse, so no returned result misses text for that reason.
C11_NoPartialResult ==
  results.status = "ok" =>
    \A i \in DOMAIN file :
      \A j \in DOMAIN file[i] : ~ParseFailureSwallowed(file[i][j])

\* C12: the shared detector is keyed by model identifier: a call of
\* get_detector for identifier m returns a detector whose model identifier
\* is m, and the calls for one identifier all return the same instance.
C12_KeyedByModelName ==
  \A c \in DOMAIN calls :
    ~calls[c].raised =>
      /\ loads[calls[c].returned].model_name = EffectiveModelName(calls[c].model_name)
      /\ \A d \in DOMAIN calls :
           (/\ ~calls[d].raised
            /\ EffectiveModelName(calls[d].model_name) = EffectiveModelName(calls[c].model_name))
           => calls[d].returned = calls[c].returned

\* C13: the detector is loaded once per process: under any interleaving of
\* callers of get_detector, AIDetector is constructed at most once, every
\* call that returns gives the same instance, and _detector_instance is
\* assigned at most once.
C13_ConstructedOnce ==
  /\ Len(loads) <= 1
  /\ Len(assigned) <= 1
  /\ \A c, d \in DOMAIN calls :
       (~calls[c].raised /\ ~calls[d].raised) => calls[c].returned = calls[d].returned

\* C14: every DetectionResult that detect returns for a text of at least 10
\* characters has a confidence within [0, 1], is_ai_generated true exactly
\* when the confidence is above 0.5, and label "AI" exactly when
\* is_ai_generated and "Human" otherwise.
C14_ResultShape ==
  \A k \in DOMAIN detections :
    LET d == detections[k]
    IN (Len(d.text) >= 10 /\ ~d.raised) =>
         /\ d.confidence >= 0 /\ d.confidence <= 10
         /\ d.is_ai_generated <=> (d.confidence > 5)
         /\ d.label = (IF d.is_ai_generated THEN "AI" ELSE "Human")

\* Witness of C14: detect returned for a text of ten characters once with
\* confidence exactly 0.5 and once with confidence 0.6.
C14_Witness ==
  /\ Len(detections) >= 2
  /\ Len(detections[1].text) = 10 /\ ~detections[1].raised
  /\ detections[1].confidence = 5
  /\ detections[2].confidence = 6 /\ Len(detections[2].text) >= 10

\* The places of the trace where the operation was carried out.
Ops(op) == {j \in DOMAIN trace : trace[j].op = op}

\* C15: in detect_pptx a slide whose extracted text is empty or only
\* whitespace is reported with is_ai_generated false, confidence 0.0 and
\* label "Human", and detect is never called for that slide.
C15_BlankSlideNotClassified ==
  request.kind = "detect" =>
    \A k \in DOMAIN slide_detections :
      Strip(results.slides[k].text) = <<>> =>
        /\ slide_detections[k].slide_number = results.slides[k].slide_number
        /\ slide_detections[k].detection.is_ai_generated = FALSE
        /\ slide_detections[k].detection.confidence = 0
        /\ slide_detections[k].detection.label = "Human"
        /\ \A j \in Ops("detect") : trace[j].slide /= results.slides[k].slide_number

\* Witness of C15: detect_pptx answered for a file with a slide without
\* text and, after it, a slide with text for which detect was called.
C15_Witness ==
  /\ request.kind = "detect"
  /\ response.status = 200
  /\ Len(response.body.slides) = 2
  /\ Strip(results.slides[1].text) = <<>>
  /\ request.doc[1] /= <<>>
  /\ \E j \in Ops("detect") : trace[j].slide = 1

\* C16: a successful detect_pptx response has one SlideDetection per slide
\* of the file, in slide order; ai_slides is the number of entries with
\* is_ai_generated true, human_slides the number of the others, and
\* ai_slides + human_slides = total_slides.
C16_CountsAddUp ==
  (request.kind = "detect" /\ response.status = 200) =>
    LET b == response.body
        ai == {k \in DOMAIN b.slides : b.slides[k].detection.is_ai_generated}
    IN /\ Len(b.slides) = Len(request.doc)
       /\ \A k \in DOMAIN b.slides : b.slides[k].slide_number = k - 1
       /\ b.ai_slides = Cardinality(ai)
       /\ b.human_slides = Cardinality(DOMAIN b.slides \ ai)
       /\ b.total_slides = Len(request.doc)
       /\ b.ai_slides + b.human_slides = b.total_slides

\* Witness of C16: a response for a file of two slides, one found AI and one
\* found human.
C16_Witness ==
  /\ request.kind = "detect"
  /\ response.status = 200
  /\ response.body.total_slides = 2
  /\ response.body.ai_slides = 1
  /\ response.body.slides[2].detection.is_ai_generated

\* The slides the loop of the handler has gone through, as places of
\* results.slides.
Processed == IF hpc \in {"idle", "validate", "save", "open", "extract", "get_detector"}
             THEN {} ELSE 1..(slide_idx - 1)

\* The result detect gave for the slide numbered n: the calls are logged in
\* the order of the slides.
DetectionFor(n) ==
  detections[Cardinality({j \in Ops("detect") : trace[j].slide <= n})]

StyleStepInOrder ==
  /\ Cardinality(Ops("modify_styles")) = 1
  /\ \A m \in Ops("modify_styles") :
       /\ \A j \in Ops("detect") \cup Ops("generate") \cup Ops("replace_content") : j < m
       /\ \A j \in Ops("save_output") : m < j

\* C18: in modify_pptx, when a font name or a text colour is given, the
\* style override is applied to the whole document (every run of the saved
\* output has the font name and the colour given), whether or not
\* replace_ai_content is set and whether or not a replacement was made, and
\* it is applied after the replacement step and before the save.
C18_StyleAppliedToWholeDocument ==
  (/\ request.kind = "modify"
   /\ response.status = 200
   /\ request.font_name /= NoneS \/ request.text_color /= NoneT) =>
    /\ StyleStepInOrder
    /\ \A k \in DOMAIN AllRuns(output_doc) :
         LET font == AllRuns(output_doc)[k].font
         IN /\ request.font_name /= NoneS => font.name = request.font_name
            /\ request.text_color = HexOrange => ExplicitRgb(font) = <<255, 128, 0>>

\* The extension of the upload's file name is one of the allowed ones.
ExtensionAllowed ==
  LowerText(Suffix(request.filename)) \in
    {<<".", "p", "p", "t", "x">>, <<".", "p", "p", "t">>}

\* Nothing was written to the temporary directory and nothing was parsed.
NothingWrittenNorParsed ==
  /\ temp_input = NoneS /\ temp_output = NoneS
  /\ tempdir = {}
  /\ file = <<>> /\ results = NoResult
  /\ Ops("save_upload") = {} /\ Ops("open") = {} /\ Ops("extract") = {}

C20_NoTempFileLeft ==
  hpc = "done" => tempdir = {}

\* The request failed: an answer was given and it is not a success.
Failed == response.status \notin {0, 200}

\* The request is one of those the validation is there to refuse: an upload
\* with an extension that is not allowed or with more bytes than the cap, a
\* text that is empty, blank, shorter than 10 or longer than 100000
\* characters.
ValidationFailure ==
  IF request.kind = "text"
  THEN \/ Len(request.text) < 10
       \/ Len(Strip(request.text)) < 10
       \/ Len(Strip(request.text)) > 100000
  ELSE ~ExtensionAllowed \/ request.size > 10 * 1024 * 1024

\* The two kinds of failure are told apart by the status: a validation
\* failure is answered with a 4xx and a message, without the handler going
\* any further, and any other failure with a 500 and the message of the
\* exception.
ErrorKindsApart ==
  Failed =>
    IF ValidationFailure
    THEN /\ response.status \in 400..499
         /\ response.detail \notin {NoneS, ""}
         /\ Ops("get_detector") = {} /\ Ops("save_upload") = {}
    ELSE /\ response.status = 500
         /\ caught /= NoExc
         /\ response.detail = caught.message

\* C21: every failed request is of exactly one of two kinds: a validation
\* failure is answered as a client error with a descriptive message, and
\* every other failure as a server-side failure that carries the message and
\* the type of the exception; neither kind is answered as the other.
C21_TwoErrorKinds ==
  /\ ErrorKindsApart
  /\ (Failed /\ ~ValidationFailure) =>
       /\ response.detail = GlobalExceptionHandler(caught).detail
       /\ response.error_type = GlobalExceptionHandler(caught).error_type

\* C22: the writer never writes to the input file: modify_pptx saves to a
\* newly generated path that differs from the path of the saved upload, so
\* for as long as the saved upload is there its content is the one that was
\* uploaded, whatever replace, style and save steps (a failed save included)
\* have been taken.
C22_InputFileUntouched ==
  request.kind = "modify" =>
    /\ temp_output /= NoneS => temp_output /= temp_input
    /\ (temp_input /= NoneS /\ temp_input \in tempdir) => file = request.doc

\* Witness of C22: the presentation was changed in memory and saved, and
\* the saved upload is still there.
C22_Witness ==
  /\ request.kind = "modify"
  /\ response.status = 200
  /\ temp_input \in tempdir
  /\ temp_output \in tempdir
  /\ output_doc /= request.doc
  /\ presentation = output_doc

\* The targets of the rewriter in a text, as <<first, last>> places: the
\* occurrences of the phrases of the table in any case, the doubled "that"
\* and "very", and "is being" followed by a word in -ed.
TargetSpans(text) ==
  UNION {{<<i, i + Len(WordReplacements[n].phrase) - 1>> :
            i \in {j \in DOMAIN text : MatchAtCI(text, j, WordReplacements[n].phrase)}} :
          n \in DOMAIN WordReplacements}
  \cup {<<i, DoubledEnd(text, i, <<"t", "h", "a", "t">>) - 1>> :
          i \in {j \in DOMAIN text : DoubledEnd(text, j, <<"t", "h", "a", "t">>) /= 0}}
  \cup {<<i, DoubledEnd(text, i, <<"v", "e", "r", "y">>) - 1>> :
          i \in {j \in DOMAIN text : DoubledEnd(text, j, <<"v", "e", "r", "y">>) /= 0}}
  \cup {<<i, PassiveEnd(text, i) - 1>> :
          i \in {j \in DOMAIN text : PassiveEnd(text, j) /= 0}}

\* No two targets of the text share a character.
NoOverlappingTargets(text) ==
  \A x, y \in TargetSpans(text) : x = y \/ x[2] < y[1] \/ y[2] < x[1]

\* C23 (as stated): for a text whose targets do not overlap, the rewriter
\* applied to its own result gives that result again.
C23_IdempotentWithoutOverlap ==
  (Len(gen_outputs) >= 2 /\ NoOverlappingTargets(gen_input)) =>
    gen_outputs[2] = gen_outputs[1]

\* C23: the rewriter applied to its own result gives that result again
\* exactly when the result holds no target of the rewriter; targets that do
\* not overlap in the text given are not enough for that.
C23_IdempotentIffNoTargetLeft ==
  Len(gen_outputs) >= 2 =>
    (gen_outputs[2] = gen_outputs[1] <=> TargetSpans(gen_outputs[1]) = {})

\* Witness of C23: a text with a passive, a doubled word and no overlap was
\* changed by the first call and left alone by the second.
C23_Witness ==
  /\ Len(gen_outputs) >= 2
  /\ gen_input = TextPassive
  /\ Cardinality(TargetSpans(gen_input)) = 2
  /\ NoOverlappingTargets(gen_input)
  /\ gen_outputs[1] /= gen_input
  /\ gen_outputs[2] = gen_outputs[1]

\* The sentence of the example after the entries 1, 1..2, 1..7 and 1..19 of
\* the table, and the part of the result the example names.
ExampleAfterUtilize ==
  <<"I", "n", " ", "o", "r", "d", "e", "r", " ", "t", "o", " ", "u", "s",
    "e", " ", "t", "h", "e", " ", "s", "y", "s", "t", "e", "m", ",", " ",
    "p", "r", "i", "o", "r", " ", "t", "o", " ", "d", "e", "p", "l", "o",
    "y", "m", "e", "n", "t", ",", " ", "o", "n", "e", " ", "m", "u", "s",
    "t", " ", "c", "o", "n", "d", "u", "c", "t", " ", "a", "n", " ", "i",
    "n", "v", "e", "s", "t", "i", "g", "a", "t", "i", "o", "n", ",">>
ExampleAfterInOrderTo ==
  <<"t", "o", " ", "u", "s", "e", " ", "t", "h", "e", " ", "s", "y", "s",
    "t", "e", "m", ",", " ", "p", "r", "i", "o", "r", " ", "t", "o", " ",
    "d", "e", "p", "l", "o", "y", "m", "e", "n", "t", ",", " ", "o", "n",
    "e", " ", "m", "u", "s", "t", " ", "c", "o", "n", "d", "u", "c", "t",
    " ", "a", "n", " ", "i", "n", "v", "e", "s", "t", "i", "g", "a", "t",
    "i", "o", "n", ",">>
ExampleAfterPriorTo ==
  <<"t", "o", " ", "u", "s", "e", " ", "t", "h", "e", " ", "s", "y", "s",
    "t", "e", "m", ",", " ", "b", "e", "f", "o", "r", "e", " ", "d", "e",
    "p", "l", "o", "y", "m", "e", "n", "t", ",", " ", "o", "n", "e", " ",
    "m", "u", "s", "t", " ", "c", "o", "n", "d", "u", "c", "t", " ", "a",
    "n", " ", "i", "n", "v", "e", "s", "t", "i", "g", "a", "t", "i", "o",
    "n", ",">>
ExampleAfterInvestigation ==
  <<"t", "o", " ", "u", "s", "e", " ", "t", "h", "e", " ", "s", "y", "s",
    "t", "e", "m", ",", " ", "b", "e", "f", "o", "r", "e", " ", "d", "e",
    "p", "l", "o", "y", "m", "e", "n", "t", ",", " ", "o", "n", "e", " ",
    "m", "u", "s", "t", " ", "i", "n", "v", "e", "s", "t", "i", "g", "a",
    "t", "e", ",">>
ExampleResultPart ==
  <<"t", "o", " ", "u", "s", "e", " ", "t", "h", "e", " ", "s", "y", "s",
    "t", "e", "m", ",", " ", "b", "e", "f", "o", "r", "e", " ", "d", "e",
    "p", "l", "o", "y", "m", "e", "n", "t", ",", " ", "o", "n", "e", " ",
    "m", "u", "s", "t", " ", "i", "n", "v", "e", "s", "t", "i", "g", "a",
    "t", "e">>

\* The text of the first call to generate once n entries of the table have
\* been applied to the sentence of the example.
ExampleAfter(n) ==
  IF n = 0 THEN TextExample
  ELSE IF n = 1 THEN ExampleAfterUtilize
  ELSE IF n < 7 THEN ExampleAfterInOrderTo
  ELSE IF n < 19 THEN ExampleAfterPriorTo
  ELSE ExampleAfterInvestigation

\* C24: the phrases of the table are matched whatever the case and applied
\* in table order, each to the whole text the one before left: on the
\* sentence of the example "utilize" goes first, then "In order to" (capital
\* I), then "prior to", then "conduct an investigation", and the result
\* contains "to use the system, before deployment, one must investigate".
C24_TableOrderCaseInsensitive ==
  gen_input = TextExample =>
    /\ (gen_outputs = <<>> /\ gen_k >= 1) => gen_text = ExampleAfter(gen_k - 1)
    /\ Len(gen_outputs) >= 1 =>
         /\ gen_outputs[1] = ExampleAfterInvestigation
         /\ Contains(ExampleResultPart, gen_outputs[1])

\* Witness of C24: generate has returned for the sentence of the example,
\* with another text than it was given, which contains the part named.
C24_Witness ==
  /\ gen_input = TextExample
  /\ Len(gen_outputs) >= 1
  /\ gen_outputs[1] /= gen_input
  /\ ~Contains(ExampleResultPart, gen_input)
  /\ Contains(ExampleResultPart, gen_outputs[1])

HealthyIffModelsLoaded ==
  health /= NoHealth =>
    /\ health.status \in {"healthy", "degraded"}
    /\ (health.status = "healthy" <=> health.models_loaded)

\* The slides (counted from 1) that a Replacement processed so far names.
NamedSlides == {log[n].replacement.slide_num + 1 : n \in DOMAIN log}

\* C26: a Replacement for slide k changes slide k only; the slides no
\* Replacement names keep every run, text and formatting, as the file has
\* them; and the number of slides, of shapes on each slide and of runs in
\* each shape stays what it was.
C26_OnlyNamedSlideChanges ==
  /\ \A n \in DOMAIN log :
       LET b == log[n].before
           a == log[n].after
       IN /\ Len(a) = Len(b)
          /\ \A i \in DOMAIN b :
               /\ i /= log[n].replacement.slide_num + 1 => a[i] = b[i]
               /\ Len(a[i]) = Len(b[i])
               /\ \A j \in DOMAIN b[i] :
                    Len(ShapeRuns(a[i][j])) = Len(ShapeRuns(b[i][j]))
  /\ Len(presentation) = Len(file)
  /\ \A i \in DOMAIN file : i \notin NamedSlides => presentation[i] = file[i]

\* Witness of C26: replace_content has returned on a presentation of two
\* slides with runs; the slide its Replacements name has changed and the
\* other one, which holds the old text too, has not.
C26_Witness ==
  /\ pc = "replaced"
  /\ Len(file) = 2
  /\ \E i, k \in DOMAIN file :
       /\ i \in NamedSlides
       /\ k \notin NamedSlides
       /\ presentation[i] /= file[i]
       /\ presentation[k] = file[k]
       /\ \E n \in DOMAIN log :
            \E t \in SlideRunTexts(file[k]) :
              log[n].after /= log[n].before /\ Contains(log[n].replacement.old_text, t)

\* The non-empty paragraph and cell texts a slide's text is joined from.
SlideAtoms(shapes) == Concat([j \in DOMAIN shapes |-> ShapeAtoms(shapes[j])])

\* The Replacements of the request for slides whose text is joined from two
\* or more non-empty paragraphs, shapes or cells.
JoinedReplacements ==
  {r \in DOMAIN replacements :
     Len(SlideAtoms(request.doc[replacements[r].slide_num + 1])) >= 2}

\* C27: in the modification flow old_text is the whole space-joined text of
\* the slide, so for a slide whose text is joined from two or more non-empty
\* parts no run contains old_text: replace_content leaves the slide as
\* uploaded, and without a style request so does the saved output, although
\* the slide was detected as AI at or above the threshold.
C27_JoinedSlideTextReplacesNothing ==
  request.kind = "modify" =>
    \A r \in JoinedReplacements :
      LET i == replacements[r].slide_num + 1
      IN /\ replacements[r].old_text = Join(SlideAtoms(request.doc[i]), Space)
         /\ \A t \in SlideRunTexts(request.doc[i]) :
              ~Contains(replacements[r].old_text, t)
         /\ hpc = "styles" => presentation[i] = request.doc[i]
         /\ (hpc = "done" /\ response.status = 200 /\ ~StyleRequested(request))
              => output_doc[i] = request.doc[i]

\* Witness of C27: the handler has saved the output of a request without
\* styles; a slide joined from several parts was found AI at or above the
\* threshold, got a Replacement with another new_text, went through
\* replace_content and is in the output as it was uploaded.
C27_Witness ==
  /\ request.kind = "modify"
  /\ hpc = "done"
  /\ response.status = 200
  /\ ~StyleRequested(request)
  /\ Ops("replace_content") /= {}
  /\ \E r \in JoinedReplacements :
       LET n == replacements[r].slide_num
       IN /\ DetectionFor(n).label = "AI"
          /\ DetectionFor(n).confidence >= request.confidence_threshold
          /\ replacements[r].new_text /= replacements[r].old_text
          /\ output_doc[n + 1] = request.doc[n + 1]

\* Every detector handed out or held in the global is one whose
\* construction finished; a call that raised returned nothing.
OnlyFinishedDetectors ==
  /\ detector_instance \in {NoInstance} \cup DOMAIN loads
  /\ (loads = <<>> => detector_instance = NoInstance)
  /\ \A k \in DOMAIN loads : loads[k].model_name \in {ModelDefault, ModelOther}
  /\ \A c \in DOMAIN calls :
       IF calls[c].raised THEN calls[c].returned = NoInstance
       ELSE calls[c].returned \in DOMAIN loads

\* A step in which caller t leaves the construction by the exception.
LoadFails(t) == thread[t].pc = "construct" /\ thread'[t].pc = "idle"

\* C28: when constructing the classifier fails, the failing call leaves the
\* shared instance as it was (unset, unless another caller set it), the
\* failure goes to that caller and nothing is returned to it; no detector
\* whose construction did not finish is ever held or handed out; and a call
\* that finds the instance unset attempts the construction again.
C28_FailedLoadLeavesInstanceUnset ==
  /\ []OnlyFinishedDetectors
  /\ [][ \A t \in DOMAIN thread :
           /\ LoadFails(t) =>
                /\ detector_instance' = detector_instance
                /\ loads' = loads
                /\ assigned' = assigned
                /\ Len(calls') = Len(calls) + 1
                /\ calls'[Len(calls')].caller = t
                /\ calls'[Len(calls')].raised
           /\ (thread[t].pc = "check" /\ thread'[t].pc /= "check"
                 /\ detector_instance = NoInstance)
                => thread'[t].pc = "construct" ]_vars

\* Witness of C28: a caller's first call raised, the instance is unset and no
\* detector exists; the same caller has called again and is constructing.
C28_Witness ==
  /\ Len(calls) = 1
  /\ calls[1].raised
  /\ detector_instance = NoInstance
  /\ loads = <<>>
  /\ thread[calls[1].caller].pc = "construct"

\* C29: whatever the threshold, no slide whose confidence is 0.5 or less is
\* replaced; and a threshold of 0.5 or less (0 included) selects exactly the
\* slides detected as AI.
C29_ThresholdFloor ==
  (request.kind = "modify" /\ request.replace_ai_content) =>
    \A k \in Processed :
      LET st == results.slides[k]
          made == \E r \in DOMAIN replacements :
                    replacements[r].slide_num = st.slide_number
          called == \E j \in Ops("detect") : trace[j].slide = st.slide_number
      IN /\ made => (called /\ DetectionFor(st.slide_number).confidence > AiThreshold)
         /\ request.confidence_threshold <= AiThreshold =>
              (made <=> (called /\ DetectionFor(st.slide_number).is_ai_generated))

\* Witness of C29: with threshold 0 the first slide, of confidence 0.5, got
\* no Replacement and the second, of confidence 0.6, got one.
C29_Witness ==
  /\ request.kind = "modify"
  /\ request.replace_ai_content
  /\ request.confidence_threshold = 0
  /\ hpc = "done"
  /\ Len(detections) = 2
  /\ detections[1].confidence = AiThreshold /\ ~detections[1].is_ai_generated
  /\ detections[2].confidence = AiThreshold + 1 /\ detections[2].is_ai_generated
  /\ Len(replacements) = 1
  /\ replacements[1].slide_num = 1

\* C30: when the handler of a modification request has returned a success,
\* the output file named in the response is in the temporary directory,
\* holding the presentation that was saved (the cleanup removes the saved
\* upload only), and the saved upload is gone.
C30_OutputThereInputGone ==
  (request.kind = "modify" /\ hpc = "done" /\ response.status = 200) =>
    /\ response.path = temp_output
    /\ response.path \in tempdir
    /\ output_doc = presentation
    /\ temp_input /= NoneS
    /\ temp_input \notin tempdir

\* Witness of C30: a modification request was answered with a success; the
\* upload had been saved and the cleanup has run; the output is there.
C30_Witness ==
  /\ request.kind = "modify"
  /\ hpc = "done"
  /\ response.status = 200
  /\ Ops("save_upload") /= {}
  /\ Ops("cleanup") /= {}
  /\ tempdir = {response.path}
  /\ output_doc /= <<>>

====
